---- MODULE Spec2Model ----
(***************************************************************************)
(* The two-layer network engine of NN_Playground (class NeuralNetwork,     *)
(* lib/neural-network.ts) together with its callers' view of it.           *)
(*                                                                         *)
(* Numbers.  A JavaScript number is modelled in fixed point: the integer k *)
(* stands for k / One.  Products and quotients round to the nearest unit,  *)
(* sigmoid and the logarithm are the nearest-unit values of the real       *)
(* functions.  Besides numbers an array cell can read as undefined (an     *)
(* index past the end), NaN (arithmetic on undefined) or null (what JSON   *)
(* makes of NaN).  A value is a pair <<tag, k>>.                           *)
(*                                                                         *)
(* Storage.  Arrays are objects of a heap, so that two references to one   *)
(* array are told from two equal arrays: heap[a] is the sequence of cells  *)
(* of the array at address a, and a matrix is an array of references to    *)
(* its rows.  After every operation the heap is renumbered in a fixed      *)
(* traversal order from the roots and unreachable arrays are dropped.      *)
(***************************************************************************)
EXTENDS Integers, Sequences, FiniteSets, TLC

VARIABLES
  heap,          \* address -> array (sequence of values)
  weights1,      \* this.weights1: address of the input x hidden matrix
  weights2,      \* this.weights2: address of the hidden x output matrix
  biases1,       \* this.biases1: address
  biases2,       \* this.biases2: address
  learningRate,  \* this.learningRate: a number
  taskType,      \* this.taskType
  held,          \* the weights object the caller holds (getWeights' result or
                 \* the argument it built for setWeights); addresses, 0 = none
  inp,           \* the inputs array the caller passed to the last trainStep
  step,          \* the TrainingStep record last returned (addresses, 0 = none)
  out,           \* what the last call returned if it was predict or
                 \* getTaskType, else <<>>
  lastOp,        \* the operation that ran last, with its arguments
  threw,         \* TRUE once an engine call has raised an exception
  calls,         \* how many operations have run
  constructed,   \* the arguments the engine's constructor was called with
  driver,        \* the state of the BackpropPlayground component
  tfjs           \* the state of the TensorFlow.js playground page

vars == <<heap, weights1, weights2, biases1, biases2, learningRate, taskType,
          held, inp, step, out, lastOp, threw, calls, constructed, driver, tfjs>>

\* what the engine's own operations leave alone
others == <<constructed, driver, tfjs>>

----------------------------------------------------------------------------
(* Sizes and bounds *)

One == 8            \* the fixed-point unit: the integer 8 stands for 1.0

InputSize == 2      \* inputSize
HiddenSize == 2     \* hiddenSize
OutputSize == 1     \* outputSize

MaxCalls == 2       \* operations in one run
MaxPoints == 2      \* sample points of one loss-landscape computation

----------------------------------------------------------------------------
(* JavaScript values and arithmetic *)

Num(k) == <<"num", k>>
NaN == <<"nan", 0>>
Undef == <<"undefined", 0>>
Null == <<"null", 0>>
Ref(a) == <<"ref", a>>

IsNum(x) == x[1] = "num"
IsRef(x) == x[1] = "ref"

\* Infinity and -Infinity
PosInf == <<"inf", 1>>
NegInf == <<"inf", -1>>
IsInf(x) == x[1] = "inf"

\* ToNumber: null is 0, undefined is NaN
ToNumber(x) ==
  IF x = Null THEN Num(0) ELSE IF IsNum(x) \/ IsInf(x) THEN x ELSE NaN

\* a / b rounded to the nearest integer, halves away from zero (b > 0)
RoundDiv(a, b) ==
  IF a >= 0 THEN (2 * a + b) \div (2 * b) ELSE -((2 * (-a) + b) \div (2 * b))

\* Infinity + -Infinity is NaN
Add(x, y) ==
  LET a == ToNumber(x)  b == ToNumber(y)
  IN IF a = NaN \/ b = NaN THEN NaN
     ELSE IF IsNum(a) /\ IsNum(b) THEN Num(a[2] + b[2])
     ELSE IF IsNum(a) THEN b
     ELSE IF IsNum(b) \/ a = b THEN a
     ELSE NaN

\* -x
Neg(x) ==
  LET a == ToNumber(x) IN IF a = NaN THEN NaN ELSE <<a[1], -a[2]>>

Sub(x, y) == Add(x, Neg(y))

\* 0 * Infinity is NaN
Mul(x, y) ==
  LET a == ToNumber(x)  b == ToNumber(y)
  IN IF a = NaN \/ b = NaN THEN NaN
     ELSE IF IsNum(a) /\ IsNum(b) THEN Num(RoundDiv(a[2] * b[2], One))
     ELSE IF a[2] = 0 \/ b[2] = 0 THEN NaN
     ELSE IF (a[2] > 0) = (b[2] > 0) THEN PosInf ELSE NegInf

\* x / n for an array length n: 0/0 is NaN, x/0 is an infinity
DivLen(x, n) ==
  LET a == ToNumber(x)
  IN IF a = NaN THEN NaN
     ELSE IF IsInf(a) THEN a
     ELSE IF n > 0 THEN Num(RoundDiv(a[2], n))
     ELSE IF a[2] = 0 THEN NaN
     ELSE IF a[2] > 0 THEN PosInf ELSE NegInf

\* a[i] with a 0-based index i: undefined past the end
At(a, i) == IF i >= 0 /\ i < Len(a) THEN a[i + 1] ELSE Undef

\* the sequence f with every cell evaluated (TLC would otherwise recompute a
\* cell of [k \in 1..n |-> e] each time it is read)
Cells(f) == f \o <<>>

\* F(v) for a local v that is evaluated once, before F's body
Let(v, F(_)) == CHOOSE r \in {F(x) : x \in {v}} : TRUE

\* Array(n).fill(0)
Zeros(n) == Cells([i \in 1..n |-> Num(0)])

\* sigmoid(x) = 1 / (1 + exp(-x)), to the nearest unit
sigmoid(x) ==
  LET a == ToNumber(x)
      k == a[2]
  IN IF a = NaN THEN NaN
     ELSE IF IsInf(a) THEN (IF a = PosInf THEN Num(8) ELSE Num(0))
     ELSE IF k >= 22 THEN Num(8)
     ELSE IF k >= 12 THEN Num(7)
     ELSE IF k >= 7 THEN Num(6)
     ELSE IF k >= 3 THEN Num(5)
     ELSE IF k >= -2 THEN Num(4)
     ELSE IF k >= -6 THEN Num(3)
     ELSE IF k >= -11 THEN Num(2)
     ELSE IF k >= -21 THEN Num(1)
     ELSE Num(0)

\* sigmoidDerivative(x) = s * (1 - s)
sigmoidDerivative(x) ==
  LET s == sigmoid(x) IN Mul(s, Sub(Num(One), s))

\* epsilon = 1e-12 and 1 - epsilon, which lie less than a unit from 0 and 1
Epsilon == <<"epsilon", 0>>
OneLessEpsilon == <<"epsilon", 1>>

\* the output is passed to the logarithm as it is
ClampNone(y) == ToNumber(y)

\* Math.max(epsilon, Math.min(1 - epsilon, y)): NaN stays NaN
Clamp(y) ==
  LET a == ToNumber(y)
  IN IF a = NaN THEN NaN
     ELSE IF a = NegInf \/ (IsNum(a) /\ a[2] <= 0) THEN Epsilon
     ELSE IF a = PosInf \/ a[2] >= One THEN OneLessEpsilon
     ELSE a

\* 1 - y for a clamped y: 1 - (1 - epsilon) is a positive number near epsilon
OneMinus(y) ==
  IF y = Epsilon THEN OneLessEpsilon
  ELSE IF y = OneLessEpsilon THEN Epsilon
  ELSE Sub(Num(One), y)

\* Math.log(x) to the nearest unit: ln(1e-12) = -27.63, ln(1 - 1e-12) = -0.0,
\* ln(0) = -Infinity, ln of a negative number is NaN, ln(2x) = ln(x) + ln(2)
RECURSIVE Log(_)
Log(x) ==
  IF x = Epsilon THEN Num(-221)
  ELSE IF x = OneLessEpsilon THEN Num(0)
  ELSE IF x = NaN \/ x = NegInf THEN NaN
  ELSE IF x = PosInf THEN PosInf
  ELSE IF x[2] < 0 THEN NaN
  ELSE IF x[2] = 0 THEN NegInf
  ELSE IF x[2] <= One THEN Num(<<-17, -11, -8, -6, -4, -2, -1, 0>>[x[2]])
  ELSE Add(Log(Num((x[2] + 1) \div 2)), Num(6))

\* Math.log(y) for y = Math.max(epsilon, Math.min(1 - epsilon, output))
LogClamped(y) == Log(Clamp(y))

\* Math.log(1 - y) for the same clamped y
LogOneMinusClamped(y) == Log(OneMinus(Clamp(y)))

----------------------------------------------------------------------------
(* The engine's arithmetic on array values (sequences of values; a matrix  *)
(* value is a sequence of rows)                                            *)

HasIndex(a, i) == i >= 0 /\ i < Len(a)

\* m[i]?.[j] with 0-based indices
At2(m, i, j) == IF HasIndex(m, i) THEN At(m[i + 1], j) ELSE Undef

\* column j of vector_b^T * matrix_a, accumulated over rows 0..n-1; a row whose
\* cell or whose vector entry is undefined is skipped
RECURSIVE ColumnSum(_, _, _, _)
ColumnSum(matrix_a, vector_b, j, n) ==
  IF n = 0 THEN Num(0)
  ELSE LET acc == ColumnSum(matrix_a, vector_b, j, n - 1)
           i == n - 1
       IN IF At2(matrix_a, i, j) = Undef \/ At(vector_b, i) = Undef
          THEN acc
          ELSE Add(acc, Mul(At(vector_b, i), At2(matrix_a, i, j)))

\* matrix_a[0].length is read even for an empty matrix
matrixMultiplyThrowsUnguarded(matrix_a, vector_b) ==
  At(matrix_a, 0) = Undef

\* matrix_a[0].length raises a TypeError when matrix_a[0] is undefined; the
\* guard on numRowsMatrix returns before it for an empty matrix
matrixMultiplyThrows(matrix_a, vector_b) ==
  IF Len(matrix_a) = 0 THEN FALSE ELSE At(matrix_a, 0) = Undef

matrixMultiply(matrix_a, vector_b) ==
  LET numRowsMatrix == Len(matrix_a)
  IN IF numRowsMatrix = 0 THEN <<>>
     ELSE LET numColsMatrix == Len(matrix_a[1])
          IN IF Len(vector_b) # numRowsMatrix THEN Zeros(numColsMatrix)
             ELSE Cells([c \in 1..numColsMatrix |->
                     ColumnSum(matrix_a, vector_b, c - 1, numRowsMatrix)])

vectorAdd(a, b) ==
  Cells([k \in 1..Len(a) |->
     IF a[k] # Undef /\ At(b, k - 1) # Undef THEN Add(a[k], At(b, k - 1))
     ELSE Num(0)])

MapSigmoid(a) == Cells([k \in 1..Len(a) |-> sigmoid(a[k])])

\* The four parameter tensors as values, read through the heap h
MatrixOf(h, a) == Cells([r \in 1..Len(h[a]) |-> h[h[a][r][2]]])

ParamsOf(h, e) ==
  [weights1 |-> MatrixOf(h, e.weights1), weights2 |-> MatrixOf(h, e.weights2),
   biases1 |-> h[e.biases1], biases2 |-> h[e.biases2]]

\* predict(inputs) on parameters p
predictThrows(p, inputs) ==
  \/ matrixMultiplyThrows(p.weights1, inputs)
  \/ matrixMultiplyThrows(p.weights2,
       MapSigmoid(vectorAdd(matrixMultiply(p.weights1, inputs), p.biases1)))

predictValue(p, task, inputs) ==
  LET hiddenPre == vectorAdd(matrixMultiply(p.weights1, inputs), p.biases1)
      hiddenPost == MapSigmoid(hiddenPre)
      outputPre == vectorAdd(matrixMultiply(p.weights2, hiddenPost), p.biases2)
  IN IF task = "classification" THEN MapSigmoid(outputPre) ELSE outputPre

----------------------------------------------------------------------------
(* trainStep, statement by statement, on a frame: the values of this.* and *)
(* of the locals at one point of the body                                  *)

NewFrame(p, rate, task, inputs, target) ==
  [weights1 |-> p.weights1, weights2 |-> p.weights2,
   biases1 |-> p.biases1, biases2 |-> p.biases2,
   learningRate |-> rate, taskType |-> task,
   inputs |-> inputs, target |-> target,
   hiddenPre |-> <<>>, hiddenPost |-> <<>>, outputPre |-> <<>>,
   outputPost |-> <<>>, loss |-> NaN,
   outputGradients |-> <<>>, hiddenGradients |-> <<>>,
   weights2Gradients |-> <<>>, weights1Gradients |-> <<>>,
   biases2Gradients |-> <<>>, biases1Gradients |-> <<>>]

\* the forward pass with a linear output whatever the task
ForwardPassLinear(f) ==
  LET hiddenPre == vectorAdd(matrixMultiply(f.weights1, f.inputs), f.biases1)
      hiddenPost == MapSigmoid(hiddenPre)
      outputPre == vectorAdd(matrixMultiply(f.weights2, hiddenPost), f.biases2)
  IN [f EXCEPT !.hiddenPre = hiddenPre, !.hiddenPost = hiddenPost,
               !.outputPre = outputPre, !.outputPost = outputPre]

ForwardPass(f) ==
  LET hiddenPre == vectorAdd(matrixMultiply(f.weights1, f.inputs), f.biases1)
      hiddenPost == MapSigmoid(hiddenPre)
      outputPre == vectorAdd(matrixMultiply(f.weights2, hiddenPost), f.biases2)
      outputPost == IF f.taskType = "classification" THEN MapSigmoid(outputPre)
                    ELSE outputPre
  IN [f EXCEPT !.hiddenPre = hiddenPre, !.hiddenPost = hiddenPost,
               !.outputPre = outputPre, !.outputPost = outputPost]

\* outputPost.reduce(...) of the cross-entropy terms, over entries 0..n-1
RECURSIVE CrossEntropySum(_, _, _)
CrossEntropySum(outputPost, target, n) ==
  IF n = 0 THEN Num(0)
  ELSE LET t == At(target, n - 1)
           y == outputPost[n]
       IN Sub(CrossEntropySum(outputPost, target, n - 1),
              Add(Mul(t, LogClamped(y)),
                  Mul(Sub(Num(One), t), LogOneMinusClamped(y))))

\* the error is summed without being squared
RECURSIVE SquaredErrorSumSigned(_, _, _)
SquaredErrorSumSigned(outputPost, target, n) ==
  IF n = 0 THEN Num(0)
  ELSE LET d == Sub(At(target, n - 1), outputPost[n])
       IN Add(SquaredErrorSumSigned(outputPost, target, n - 1),
              Mul(Num(One \div 2), d))

\* outputPost.reduce(...) of 0.5 * (target - output)^2, over entries 0..n-1
RECURSIVE SquaredErrorSum(_, _, _)
SquaredErrorSum(outputPost, target, n) ==
  IF n = 0 THEN Num(0)
  ELSE LET d == Sub(At(target, n - 1), outputPost[n])
       IN Add(SquaredErrorSum(outputPost, target, n - 1),
              Mul(Num(One \div 2), Mul(d, d)))

\* classification: the gradient is multiplied by the sigmoid's derivative
OutputGradientsScaled(f) ==
  Cells([k \in 1..Len(f.outputPost) |->
     IF f.taskType = "classification"
     THEN Mul(Sub(f.outputPost[k], At(f.target, k - 1)),
              sigmoidDerivative(f.outputPre[k]))
     ELSE Sub(f.outputPost[k], At(f.target, k - 1))])

OutputGradients(f) ==
  Cells([k \in 1..Len(f.outputPost) |-> Sub(f.outputPost[k], At(f.target, k - 1))])

LossAndOutputGradients(f) ==
  LET n == Len(f.outputPost)
      loss == IF f.taskType = "classification"
              THEN DivLen(CrossEntropySum(f.outputPost, f.target, n), n)
              ELSE DivLen(SquaredErrorSum(f.outputPost, f.target, n), n)
  IN [f EXCEPT !.loss = loss, !.outputGradients = OutputGradients(f)]

\* errorSum of hidden unit hIdx over output units 0..n-1
RECURSIVE ErrorSum(_, _, _, _)
ErrorSum(w2, outputGradients, hIdx, n) ==
  IF n = 0 THEN Num(0)
  ELSE LET acc == ErrorSum(w2, outputGradients, hIdx, n - 1)
           oIdx == n - 1
       IN IF /\ HasIndex(w2, hIdx)
             /\ At2(w2, hIdx, oIdx) # Undef
             /\ At(outputGradients, oIdx) # Undef
          THEN Add(acc, Mul(At(outputGradients, oIdx), At2(w2, hIdx, oIdx)))
          ELSE acc

HiddenLayerGradients(f) ==
  LET hiddenErrorValues ==
        Cells([k \in 1..Len(f.biases1) |->
           ErrorSum(f.weights2, f.outputGradients, k - 1, Len(f.biases2))])
      hiddenGradients ==
        Cells([k \in 1..Len(hiddenErrorValues) |->
           IF At(f.hiddenPre, k - 1) = Undef THEN Num(0)
           ELSE Mul(hiddenErrorValues[k], sigmoidDerivative(f.hiddenPre[k]))])
  IN [f EXCEPT !.hiddenGradients = hiddenGradients]

\* the outer product taken the other way round: b.map(g => a.map(x => x * g))
OuterTransposed(a, b) ==
  Cells([c \in 1..Len(b) |-> Cells([r \in 1..Len(a) |-> Mul(a[r], b[c])])])

\* a.map(x => b.map(g => x * g))
Outer(a, b) ==
  Cells([r \in 1..Len(a) |-> Cells([c \in 1..Len(b) |-> Mul(a[r], b[c])])])

ParameterGradients(f) ==
  [f EXCEPT !.weights2Gradients = Outer(f.hiddenPost, f.outputGradients),
            !.weights1Gradients = Outer(f.inputs, f.hiddenGradients),
            !.biases2Gradients = f.outputGradients,
            !.biases1Gradients = f.hiddenGradients]

\* the update loops push the new value of a row's last cell onto the row
\* instead of writing it in place
UpdatedMatrixPushed(w, g, rate) ==
  Cells([r \in 1..Len(w) |->
     IF Len(w[r]) > 0 /\ At2(g, r - 1, Len(w[r]) - 1) # Undef
     THEN Append(w[r], Sub(w[r][Len(w[r])], Mul(rate, At2(g, r - 1, Len(w[r]) - 1))))
     ELSE w[r]])

\* w[i][j] -= rate * g[i][j] wherever both cells are defined
UpdatedMatrix(w, g, rate) ==
  Cells([r \in 1..Len(w) |->
     Cells([c \in 1..Len(w[r]) |->
        IF w[r][c] # Undef /\ At2(g, r - 1, c - 1) # Undef
        THEN Sub(w[r][c], Mul(rate, At2(g, r - 1, c - 1)))
        ELSE w[r][c]])])

UpdatedVector(b, g, rate) ==
  Cells([k \in 1..Len(b) |->
     IF b[k] # Undef /\ At(g, k - 1) # Undef
     THEN Sub(b[k], Mul(rate, At(g, k - 1)))
     ELSE b[k]])

UpdateWeights2(f) ==
  [f EXCEPT !.weights2 = UpdatedMatrix(f.weights2, f.weights2Gradients, f.learningRate)]

UpdateWeights1(f) ==
  [f EXCEPT !.weights1 = UpdatedMatrix(f.weights1, f.weights1Gradients, f.learningRate)]

UpdateBiases2(f) ==
  [f EXCEPT !.biases2 = UpdatedVector(f.biases2, f.biases2Gradients, f.learningRate)]

UpdateBiases1(f) ==
  [f EXCEPT !.biases1 = UpdatedVector(f.biases1, f.biases1Gradients, f.learningRate)]

\* weights2 is updated as soon as its gradient is known, before the hidden
\* layer's error is propagated through it
trainStepBodyEarlyUpdate(f0) ==
  LET f1 == LossAndOutputGradients(ForwardPass(f0))
      f2 == [f1 EXCEPT !.weights2Gradients = Outer(f1.hiddenPost, f1.outputGradients)]
      f3 == HiddenLayerGradients(UpdateWeights2(f2))
  IN UpdateBiases1(UpdateBiases2(UpdateWeights1(ParameterGradients(f3))))

\* the update adds the scaled gradient
trainStepBodyAscent(f0) ==
  LET f == ParameterGradients(HiddenLayerGradients(
             LossAndOutputGradients(ForwardPass(f0))))
      up == [f EXCEPT !.learningRate = Sub(Num(0), f.learningRate)]
      g == UpdateBiases1(UpdateBiases2(UpdateWeights1(UpdateWeights2(up))))
  IN [g EXCEPT !.learningRate = f.learningRate]

trainStepBody(f0) ==
  UpdateBiases1(UpdateBiases2(UpdateWeights1(UpdateWeights2(
    ParameterGradients(HiddenLayerGradients(
      LossAndOutputGradients(ForwardPass(f0))))))))

trainStepThrows(p, inputs) == predictThrows(p, inputs)

----------------------------------------------------------------------------
(* Arrays as heap objects.  An allocation result is [h |-> heap, a |-> the *)
(* new array's address].                                                   *)

\* a new array holding vals
AllocArr(h, vals) == [h |-> Append(h, vals), a |-> Len(h) + 1]

\* a new matrix with new rows holding the row values
AllocMat(h, rows) ==
  [h |-> (h \o rows) \o << Cells([r \in 1..Len(rows) |-> Ref(Len(h) + r)]) >>,
   a |-> Len(h) + Len(rows) + 1]

\* [...m]: a new outer array whose rows are those of m
ShallowCopyMat(h, a) == AllocArr(h, h[a])

\* m.map(row => [...row])
CopyMat(h, a) == AllocMat(h, MatrixOf(h, a))

\* [...a]
CopyArr(h, a) == AllocArr(h, h[a])

NoWeights == [weights1 |-> 0, weights2 |-> 0, biases1 |-> 0, biases2 |-> 0]

\* getWeights(): [h |-> heap, w |-> the returned object]
getWeights(h, e) ==
  LET c1 == CopyMat(h, e.weights1)
      c2 == CopyMat(c1.h, e.weights2)
      c3 == CopyArr(c2.h, e.biases1)
      c4 == CopyArr(c3.h, e.biases2)
  IN [h |-> c4.h,
      w |-> [weights1 |-> c1.a, weights2 |-> c2.a, biases1 |-> c3.a, biases2 |-> c4.a]]

\* setWeights(w) cut short after its first k assignments (k = 4: all of it):
\* [h |-> heap, e |-> the engine's tensors]
setWeightsUpTo(h, e, w, k) ==
  LET c1 == CopyMat(h, w.weights1)
      c2 == CopyMat(c1.h, w.weights2)
      c3 == CopyArr(c2.h, w.biases1)
      c4 == CopyArr(c3.h, w.biases2)
  IN [h |-> c4.h,
      e |-> [weights1 |-> IF k >= 1 THEN c1.a ELSE e.weights1,
             weights2 |-> IF k >= 2 THEN c2.a ELSE e.weights2,
             biases1 |-> IF k >= 3 THEN c3.a ELSE e.biases1,
             biases2 |-> IF k >= 4 THEN c4.a ELSE e.biases2]]

\* biases1 is copied from weights.biases2
setWeightsSwapped(h, e, w) ==
  setWeightsUpTo(h, e, [w EXCEPT !.biases1 = w.biases2], 4)

setWeights(h, e, w) == setWeightsUpTo(h, e, w, 4)

\* a weights object built by the caller from values
AllocWeights(h, p) ==
  LET c1 == AllocMat(h, p.weights1)
      c2 == AllocMat(c1.h, p.weights2)
      c3 == AllocArr(c2.h, p.biases1)
      c4 == AllocArr(c3.h, p.biases2)
  IN [h |-> c4.h,
      w |-> [weights1 |-> c1.a, weights2 |-> c2.a, biases1 |-> c3.a, biases2 |-> c4.a]]

\* the in-place writes of trainStep's update loops: the engine's rows and bias
\* arrays get the values p
RECURSIVE WriteMatrix(_, _, _, _)
WriteMatrix(h, a, m, n) ==
  IF n = 0 THEN h
  ELSE [WriteMatrix(h, a, m, n - 1) EXCEPT ![h[a][n][2]] = m[n]]

WriteParams(h, e, p) ==
  LET h1 == WriteMatrix(h, e.weights2, p.weights2, Len(h[e.weights2]))
      h2 == WriteMatrix(h1, e.weights1, p.weights1, Len(h[e.weights1]))
      h3 == [h2 EXCEPT ![e.biases2] = p.biases2]
  IN [h3 EXCEPT ![e.biases1] = p.biases1]

----------------------------------------------------------------------------
(* The TrainingStep record: addresses of its arrays, and the loss          *)

NoStep ==
  [forward |-> [inputs |-> 0, hiddenPre |-> 0, hiddenPost |-> 0, outputPre |-> 0,
                outputPost |-> 0, weights1 |-> 0, weights2 |-> 0,
                biases1 |-> 0, biases2 |-> 0],
   backward |-> [loss |-> NaN, outputGradients |-> 0, hiddenGradients |-> 0,
                 weights2Gradients |-> 0, weights1Gradients |-> 0,
                 biases2Gradients |-> 0, biases1Gradients |-> 0],
   after |-> [weights1 |-> 0, weights2 |-> 0, biases1 |-> 0, biases2 |-> 0]]

\* the addresses a record holds, in a fixed order
StepRoots(st) ==
  << st.forward.inputs, st.forward.hiddenPre, st.forward.hiddenPost,
     st.forward.outputPre, st.forward.outputPost, st.forward.weights1,
     st.forward.weights2, st.forward.biases1, st.forward.biases2,
     st.backward.outputGradients, st.backward.hiddenGradients,
     st.backward.weights2Gradients, st.backward.weights1Gradients,
     st.backward.biases2Gradients, st.backward.biases1Gradients,
     st.after.weights1, st.after.weights2, st.after.biases1, st.after.biases2 >>

WeightsRoots(w) == << w.weights1, w.weights2, w.biases1, w.biases2 >>

\* the record with every address a replaced by M(a)
MapStep(st, M(_)) ==
  [forward |-> [k \in DOMAIN st.forward |-> M(st.forward[k])],
   backward |-> [k \in DOMAIN st.backward |->
                   IF k = "loss" THEN st.backward[k] ELSE M(st.backward[k])],
   after |-> [k \in DOMAIN st.after |-> M(st.after[k])]]

MapWeights(w, M(_)) == [k \in DOMAIN w |-> M(w[k])]

----------------------------------------------------------------------------
(* Renumbering: reachable arrays in order of first visit from the roots    *)

\* root number n followed by the arrays it refers to
Segment(h, roots, n) ==
  LET a == roots[n]
      rows == SelectSeq(h[a], IsRef)
  IN IF a = 0 THEN <<>>
     ELSE <<a>> \o Cells([r \in 1..Len(rows) |-> rows[r][2]])

\* the arrays reachable from roots lo..hi, each once, in order of first visit
RECURSIVE Visit(_, _, _, _)
Visit(h, roots, lo, hi) ==
  IF lo > hi THEN <<>>
  ELSE IF lo = hi THEN Segment(h, roots, lo)
  ELSE LET mid == (lo + hi) \div 2
           first == Visit(h, roots, lo, mid)
           rest == Visit(h, roots, mid + 1, hi)
           Unseen(a) == \A k \in 1..Len(first) : first[k] # a
       IN first \o SelectSeq(rest, Unseen)

NewAddress(order, a) ==
  IF a = 0 THEN 0 ELSE CHOOSE k \in 1..Len(order) : order[k] = a

Renumbered(h, order) ==
  Cells([k \in 1..Len(order) |->
     Cells([c \in 1..Len(h[order[k]]) |->
        LET x == h[order[k]][c]
        IN IF IsRef(x) THEN Ref(NewAddress(order, x[2])) ELSE x])])

\* heap h, engine tensors e, the caller's weights object w and inputs array
\* i, and the record st, renumbered
Canon(h, e, w, i, st) ==
  LET roots == WeightsRoots(e) \o WeightsRoots(w) \o <<i>> \o StepRoots(st)
      order == Visit(h, roots, 1, Len(roots))
      M(a) == NewAddress(order, a)
  IN [h |-> Renumbered(h, order), e |-> MapWeights(e, M),
      w |-> MapWeights(w, M), i |-> M(i), st |-> MapStep(st, M)]

\* the next state's storage
Commit(h, e, w, i, st) ==
  \E c \in {Canon(h, e, w, i, st)} :
     /\ heap' = c.h
     /\ weights1' = c.e.weights1
     /\ weights2' = c.e.weights2
     /\ biases1' = c.e.biases1
     /\ biases2' = c.e.biases2
     /\ held' = c.w
     /\ inp' = c.i
     /\ step' = c.st

Engine == [weights1 |-> weights1, weights2 |-> weights2,
           biases1 |-> biases1, biases2 |-> biases2]

storage == <<heap, weights1, weights2, biases1, biases2, held, inp, step>>

Params == ParamsOf(heap, Engine)

----------------------------------------------------------------------------
(* Inputs of the operations *)

Classification == "classification"
Regression == "regression"

\* (Math.random() - 0.5) * 0.5 lies in [-0.25, 0.25): two pairs of draws
InitVals == {<<-2, 1>>, <<1, -2>>}

\* new NeuralNetwork(inputSize, hiddenSize, outputSize, ...): the tensors for
\* two draws a and b
NewNetwork(inputSize, hiddenSize, outputSize, a, b) ==
  [weights1 |-> Cells([i \in 1..inputSize |-> Cells([h \in 1..hiddenSize |->
                   Num(IF (i + h) % 2 = 0 THEN a ELSE b)])]),
   weights2 |-> Cells([h \in 1..hiddenSize |-> Cells([o \in 1..outputSize |->
                   Num(IF h % 2 = 1 THEN b ELSE a)])]),
   biases1 |-> Cells([h \in 1..hiddenSize |-> Num(IF h % 2 = 1 THEN a ELSE b)]),
   biases2 |-> Cells([o \in 1..outputSize |-> Num(b)])]

\* the constructor's tensors for two draws a and b
InitParams(a, b) == NewNetwork(InputSize, HiddenSize, OutputSize, a, b)

\* the constructor's learning rate and the one a caller sets later
InitialRate == Num(4)
Rates == {Num(2)}

\* input vectors of the right length, too short and too long
GoodInputs == {<<Num(One), Num(0)>>, <<Num(0), Num(One)>>}
BadInputs == {<<Num(One)>>, <<Num(One), Num(One), Num(One)>>}
GoodTargets == {<<Num(One)>>, <<Num(0)>>}
BadTargets == {<<>>}

\* the (inputs, target) pairs trainStep is called with
TrainCalls ==
  (GoodInputs \X GoodTargets) \cup (BadInputs \X {<<Num(One)>>})
    \cup ({<<Num(One), Num(0)>>} \X BadTargets)

\* what a caller writes into an array it holds
Written == Num(24)

\* weights objects a caller builds for setWeights: well-formed, undersized in
\* one tensor, and with output weights large enough to saturate the sigmoid
Fill(n, m, k) == Cells([r \in 1..n |-> Cells([c \in 1..m |-> Num(k)])])
BuiltWeights ==
  LET good == [weights1 |-> Fill(InputSize, HiddenSize, 3),
               weights2 |-> Fill(HiddenSize, OutputSize, -5),
               biases1 |-> Cells([h \in 1..HiddenSize |-> Num(1)]),
               biases2 |-> Cells([o \in 1..OutputSize |-> Num(2)])]
  IN { good,
       [good EXCEPT !.weights2 = <<>>],
       [good EXCEPT !.weights1 = Fill(InputSize, HiddenSize - 1, 3)],
       [good EXCEPT !.weights2 = Fill(HiddenSize, OutputSize - 1, 3)],
       [good EXCEPT !.biases2 = <<>>],
       [good EXCEPT !.weights2 = Fill(HiddenSize, OutputSize, 24)],
       [good EXCEPT !.weights2 = Fill(HiddenSize, OutputSize, -24)] }

\* an operation with its arguments, the operation before it, and whether it
\* repeats that one
Op(name, inputs, target) ==
  [op |-> name, inputs |-> inputs, target |-> target, prev |-> lastOp.op,
   repeats |-> lastOp.op = name /\ lastOp.inputs = inputs /\ lastOp.target = target]

----------------------------------------------------------------------------
(* The pages that drive an engine, before they are loaded *)

\* no interval is registered
NoInterval == [on |-> FALSE, currentDataIndex |-> 0, stepNumber |-> 0]

\* the BackpropPlayground component before it is mounted; trained counts the
\* training steps since the network was last initialized, sinceReset those
\* since the page was mounted, Reset was clicked or the dataset was changed
Unmounted ==
  [isTraining |-> FALSE, stepNumber |-> 0, lossData |-> <<>>,
   trainingData |-> <<>>, currentDataIndex |-> 0, speed |-> 0,
   learningRate |-> Num(0), hiddenSize |-> 0, datasetName |-> "",
   currentTaskType |-> "", lossWeightTrajectoryData |-> <<>>,
   interval |-> NoInterval, trained |-> 0, sinceReset |-> 0]

\* the TensorFlow.js page before its script has run: the network's isTraining
\* and iterationCount, the script's animationFrameId (0 for null), the number
\* of frames requested so far (the frame ids are 1..requested), the ids of
\* the frames that are requested and neither run nor cancelled, and the
\* number of trainStep calls that have begun and not completed; the network's
\* hiddenLayers, learningRate, activation and lossHistory, the number of
\* models built so far (model, which tells one model from the next), and the
\* values of the page's learning-rate input and activation select
NotLoaded ==
  [loaded |-> FALSE, isTraining |-> FALSE, animationFrameId |-> 0,
   requested |-> 0, frames |-> {}, awaiting |-> 0, iterationCount |-> 0,
   hiddenLayers |-> <<>>, learningRate |-> 0, activation |-> "", model |-> 0,
   lossHistory |-> <<>>, learningRateInput |-> 0, activationSelect |-> ""]

----------------------------------------------------------------------------
(* Construction *)

Init ==
  \E draw \in InitVals, task \in {Classification, Regression} :
    \E made \in {AllocWeights(<<>>, InitParams(draw[1], draw[2]))} :
    \E c \in {Canon(made.h, made.w, NoWeights, 0, NoStep)} :
       /\ heap = c.h
       /\ weights1 = c.e.weights1
       /\ weights2 = c.e.weights2
       /\ biases1 = c.e.biases1
       /\ biases2 = c.e.biases2
       /\ learningRate = InitialRate
       /\ taskType = task
       /\ held = NoWeights
       /\ inp = 0
       /\ step = NoStep
       /\ out = <<>>
       /\ lastOp = [op |-> "constructor", inputs |-> <<>>, target |-> <<>>,
                    prev |-> "", repeats |-> FALSE]
       /\ threw = FALSE
       /\ calls = 0
       /\ constructed = [learningRate |-> InitialRate, taskType |-> task]
       /\ driver = Unmounted
       /\ tfjs = NotLoaded

----------------------------------------------------------------------------
(* Operations of the engine *)

\* vectorAdd adds into its second argument: this.biases1 ends as hiddenPre
predictWritesBiases(h, e, inputs) ==
  [h EXCEPT ![e.biases1] =
     vectorAdd(matrixMultiply(MatrixOf(h, e.weights1), inputs), h[e.biases1])]

\* the heap after predict(inputs): predict writes to no array
predictHeap(h, e, inputs) == h

Predict(inputs) ==
  /\ calls < MaxCalls
  /\ \E h \in {predictHeap(heap, Engine, inputs)} :
       Commit(h, Engine, held, inp, step)
  /\ \E p \in {Params} :
       IF predictThrows(p, inputs)
       THEN threw' = TRUE /\ out' = <<>>
       ELSE threw' = threw /\ out' = predictValue(p, taskType, inputs)
  /\ lastOp' = Op("predict", inputs, <<>>)
  /\ calls' = calls + 1
  /\ UNCHANGED others
  /\ UNCHANGED <<learningRate, taskType>>

\* the snapshot keeps the engine's own arrays
initialSnapshotAliased(h, e) == [h |-> h, w |-> e]

\* initialWeights1, initialWeights2, initialBiases1, initialBiases2
initialSnapshot(h, e) == getWeights(h, e)

\* the record trainStep returns for the frame f it ended with, the snapshot
\* fw taken on entry and the inputs array at address aIn: [h, st]
MakeStep(h, e, f, fw, aIn) ==
  LET a1 == AllocArr(h, f.hiddenPre)
      a2 == AllocArr(a1.h, f.hiddenPost)
      a3 == AllocArr(a2.h, f.outputPre)
      a4 == AllocArr(a3.h, f.outputPost)
      a5 == AllocArr(a4.h, f.outputGradients)
      a6 == AllocArr(a5.h, f.hiddenGradients)
      a7 == AllocMat(a6.h, f.weights2Gradients)
      a8 == AllocMat(a7.h, f.weights1Gradients)
      a9 == AllocArr(a8.h, f.biases2Gradients)
      a10 == AllocArr(a9.h, f.biases1Gradients)
      aft == getWeights(a10.h, e)
  IN [h |-> aft.h,
      st |-> [forward |-> [inputs |-> aIn, hiddenPre |-> a1.a, hiddenPost |-> a2.a,
                           outputPre |-> a3.a, outputPost |-> a4.a,
                           weights1 |-> fw.weights1, weights2 |-> fw.weights2,
                           biases1 |-> fw.biases1, biases2 |-> fw.biases2],
              backward |-> [loss |-> f.loss, outputGradients |-> a5.a,
                            hiddenGradients |-> a6.a, weights2Gradients |-> a7.a,
                            weights1Gradients |-> a8.a, biases2Gradients |-> a9.a,
                            biases1Gradients |-> a10.a],
              after |-> aft.w]]

\* the body of trainStep(inputs, target) on the engine: the next storage, and
\* whether it raised
trainStepCall(inputs, target) ==
  \E passed \in {AllocArr(heap, inputs)} : \E p \in {Params} :
    IF trainStepThrows(p, inputs)
    THEN /\ threw' = TRUE
         /\ Commit(passed.h, Engine, held, passed.a, step)
    ELSE \E snap \in {initialSnapshot(passed.h, Engine)} :
         \E f0 \in {NewFrame(p, learningRate, taskType, inputs, target)} :
         \E f \in {trainStepBody(f0)} :
         \E updated \in {WriteParams(snap.h, Engine,
                            [weights1 |-> f.weights1, weights2 |-> f.weights2,
                             biases1 |-> f.biases1, biases2 |-> f.biases2])} :
         \E made \in {MakeStep(updated, Engine, f, snap.w, passed.a)} :
           /\ threw' = threw
           /\ Commit(made.h, Engine, held, passed.a, made.st)

\* dropout: the step runs on the inputs or, at random, on zeros in their place
TrainStepDropout(inputs, target) ==
  /\ calls < MaxCalls
  /\ lastOp' = Op("trainStep", inputs, target)
  /\ out' = <<>>
  /\ calls' = calls + 1
  /\ UNCHANGED others
  /\ UNCHANGED <<learningRate, taskType>>
  /\ \E used \in {inputs, Zeros(Len(inputs))} : trainStepCall(used, target)

TrainStep(inputs, target) ==
  /\ calls < MaxCalls
  /\ lastOp' = Op("trainStep", inputs, target)
  /\ out' = <<>>
  /\ calls' = calls + 1
  /\ UNCHANGED others
  /\ UNCHANGED <<learningRate, taskType>>
  /\ trainStepCall(inputs, target)

GetWeights ==
  /\ calls < MaxCalls
  /\ \E got \in {getWeights(heap, Engine)} :
       Commit(got.h, Engine, got.w, inp, step)
  /\ lastOp' = Op("getWeights", <<>>, <<>>)
  /\ out' = <<>>
  /\ calls' = calls + 1
  /\ UNCHANGED others
  /\ UNCHANGED <<learningRate, taskType, threw>>

\* setWeights(w) with the object the caller holds
SetWeights ==
  /\ held # NoWeights
  /\ calls < MaxCalls
  /\ \E set \in {setWeights(heap, Engine, held)} :
       Commit(set.h, set.e, held, inp, step)
  /\ lastOp' = Op("setWeights", <<>>, <<"held">>)
  /\ out' = <<>>
  /\ calls' = calls + 1
  /\ UNCHANGED others
  /\ UNCHANGED <<learningRate, taskType, threw>>

\* setWeights(w) with an object the caller builds and keeps
SetBuiltWeights(p) ==
  /\ calls < MaxCalls
  /\ \E built \in {AllocWeights(heap, p)} :
     \E set \in {setWeights(built.h, Engine, built.w)} :
       Commit(set.h, set.e, built.w, inp, step)
  /\ lastOp' = Op("setWeights", <<>>, <<"built">>)
  /\ out' = <<>>
  /\ calls' = calls + 1
  /\ UNCHANGED others
  /\ UNCHANGED <<learningRate, taskType, threw>>

\* the rate is kept in a local of the method: this.learningRate stays
SetLearningRateLocal(rate) ==
  /\ calls < MaxCalls
  /\ lastOp' = Op("setLearningRate", <<>>, <<rate>>)
  /\ out' = <<>>
  /\ calls' = calls + 1
  /\ UNCHANGED others
  /\ UNCHANGED <<storage, learningRate, taskType, threw>>

SetLearningRate(rate) ==
  /\ calls < MaxCalls
  /\ learningRate' = rate
  /\ lastOp' = Op("setLearningRate", <<>>, <<rate>>)
  /\ out' = <<>>
  /\ calls' = calls + 1
  /\ UNCHANGED others
  /\ UNCHANGED <<storage, taskType, threw>>

\* the constructor's default is returned instead of this.taskType
GetTaskTypeDefault ==
  /\ calls < MaxCalls
  /\ out' = <<Classification>>
  /\ lastOp' = Op("getTaskType", <<>>, <<>>)
  /\ calls' = calls + 1
  /\ UNCHANGED others
  /\ UNCHANGED <<storage, learningRate, taskType, threw>>

GetTaskType ==
  /\ calls < MaxCalls
  /\ out' = <<taskType>>
  /\ lastOp' = Op("getTaskType", <<>>, <<>>)
  /\ calls' = calls + 1
  /\ UNCHANGED others
  /\ UNCHANGED <<storage, learningRate, taskType, threw>>

----------------------------------------------------------------------------
(* What the caller does to the arrays it holds *)

\* the number arrays of a weights object that have a first cell: the first
\* row of each matrix and the bias arrays
NumberArrays(h, w) ==
  {a \in {h[w.weights1][r][2] : r \in 1..Len(h[w.weights1]) \cap {1}}
          \cup {h[w.weights2][r][2] : r \in 1..Len(h[w.weights2]) \cap {1}}
          \cup {w.biases1, w.biases2} : Len(h[a]) > 0}

\* held.X[0][0] = Written or held.X[0] = Written, on the object the caller holds
MutateHeld ==
  /\ held # NoWeights
  /\ calls < MaxCalls
  /\ \E a \in NumberArrays(heap, held) :
     \E h \in {[heap EXCEPT ![a][1] = Written]} :
       Commit(h, Engine, held, inp, step)
  /\ lastOp' = Op("mutateHeld", <<>>, <<>>)
  /\ out' = <<>>
  /\ calls' = calls + 1
  /\ UNCHANGED others
  /\ UNCHANGED <<learningRate, taskType, threw>>

\* inputs[0] = Written, on the array passed to the last trainStep
MutateInputs ==
  /\ inp # 0
  /\ calls < MaxCalls
  /\ \E h \in {[heap EXCEPT ![inp][1] = Written]} :
       Commit(h, Engine, held, inp, step)
  /\ lastOp' = Op("mutateInputs", <<>>, <<>>)
  /\ out' = <<>>
  /\ calls' = calls + 1
  /\ UNCHANGED others
  /\ UNCHANGED <<learningRate, taskType, threw>>

----------------------------------------------------------------------------
(* LossVsWeightChart: the loss-landscape computation (landscapeData)       *)

\* JSON.parse(JSON.stringify(v)) of an array of numbers: NaN becomes null
JsonArray(a) ==
  Cells([k \in 1..Len(a) |-> IF IsNum(a[k]) THEN a[k] ELSE Null])

JsonWeights(p) ==
  [weights1 |-> Cells([r \in 1..Len(p.weights1) |-> JsonArray(p.weights1[r])]),
   weights2 |-> Cells([r \in 1..Len(p.weights2) |-> JsonArray(p.weights2[r])]),
   biases1 |-> JsonArray(p.biases1), biases2 |-> JsonArray(p.biases2)]

\* how far a sample gets: it raises an error inside setWeights after two of
\* its assignments, or after setWeights (in predict or in the loss), or it
\* completes
ErrInSet2 == "setWeights:2"
ErrAfterSet == "afterSetWeights"
NoErr == "completes"
Outcomes == {ErrInSet2, ErrAfterSet, NoErr}

\* what the caught errors leave to see: whether any sample raised one
Raised(numPoints, outcomes) ==
  IF \E k \in 1..numPoints : outcomes[k] # NoErr THEN <<"raised">> ELSE <<>>

\* testWeight of sample i (0-based) of numPoints around currentWeight:
\* currentWeight - weightRange + i * step
TestWeight(currentWeight, i, numPoints) ==
  Num(currentWeight - 2 * One + RoundDiv(i * 4 * One, numPoints))

\* data[data.length - 1]?.weightValue || 0
CurrentWeight(h, st) ==
  LET v == At2(MatrixOf(h, st.forward.weights1), 0, 0)
  IN IF IsNum(v) THEN v[2] ELSE 0

\* one pass of the loop body on [h, e]: sample i of numPoints
Sample(s, orig, currentWeight, currentInput, i, numPoints, outcome) ==
  LET modifiedWeights == JsonWeights(ParamsOf(s.h, orig))
  IN IF At2(modifiedWeights.weights1, 0, 0) = Undef THEN s
     ELSE LET m == [modifiedWeights EXCEPT
                      !.weights1[1][1] = TestWeight(currentWeight, i, numPoints)]
              built == AllocWeights(s.h, m)
          IN IF outcome = ErrInSet2 THEN setWeightsUpTo(built.h, s.e, built.w, 2)
             ELSE LET set == setWeights(built.h, s.e, built.w)
                  IN [h |-> predictHeap(set.h, set.e, currentInput), e |-> set.e]

\* the loop over samples 0..n-1
RECURSIVE Samples(_, _, _, _, _, _, _)
Samples(s, orig, currentWeight, currentInput, n, numPoints, outcomes) ==
  IF n = 0 THEN s
  ELSE Let(Samples(s, orig, currentWeight, currentInput, n - 1, numPoints, outcomes),
           LAMBDA before :
             Sample(before, orig, currentWeight, currentInput, n - 1, numPoints,
                    outcomes[n]))

\* the original weights are restored only when no sample raised an error
landscapeDataRestoreInTry(h, e, currentWeight, currentInput, numPoints, outcomes) ==
  Let(getWeights(h, e), LAMBDA got :
  Let(Samples([h |-> got.h, e |-> e], got.w, currentWeight,
              currentInput, numPoints, numPoints, outcomes), LAMBDA looped :
    IF \E k \in 1..numPoints : outcomes[k] # NoErr THEN looped
    ELSE setWeights(looped.h, looped.e, got.w)))

\* [h, e] after the computation
landscapeData(h, e, currentWeight, currentInput, numPoints, outcomes) ==
  Let(getWeights(h, e), LAMBDA got :
  Let(Samples([h |-> got.h, e |-> e], got.w, currentWeight,
              currentInput, numPoints, numPoints, outcomes), LAMBDA looped :
    setWeights(looped.h, looped.e, got.w)))

\* the computation runs once a step has been recorded (data.length > 0)
Landscape(currentInput, numPoints, outcomes) ==
  /\ step # NoStep
  /\ calls < MaxCalls
  /\ \E currentWeight \in {CurrentWeight(heap, step)} :
     \E done \in {landscapeData(heap, Engine, currentWeight,
                                 currentInput, numPoints, outcomes)} :
       Commit(done.h, done.e, held, inp, step)
  /\ lastOp' = Op("landscape", currentInput, Raised(numPoints, outcomes))
  /\ out' = <<>>
  /\ calls' = calls + 1
  /\ UNCHANGED others
  /\ UNCHANGED <<learningRate, taskType, threw>>

----------------------------------------------------------------------------
Next ==
  \/ \E inputs \in GoodInputs \cup BadInputs : Predict(inputs)
  \/ \E call \in TrainCalls : TrainStep(call[1], call[2])
  \/ GetWeights
  \/ SetWeights
  \/ \E p \in BuiltWeights : SetBuiltWeights(p)
  \/ \E rate \in Rates : SetLearningRate(rate)
  \/ GetTaskType
  \/ MutateHeld
  \/ MutateInputs
  \/ \E currentInput \in {<<Num(One), Num(0)>>} : \E numPoints \in 0..MaxPoints :
       \E outcomes \in [1..numPoints -> Outcomes] :
         Landscape(currentInput, numPoints, outcomes)

Spec == Init /\ [][Next]_vars

----------------------------------------------------------------------------
(* What a caller reads *)

\* the TrainingStep record st as values
TrainingStep(h, st) ==
  [forward |-> [inputs |-> h[st.forward.inputs],
                hiddenPre |-> h[st.forward.hiddenPre],
                hiddenPost |-> h[st.forward.hiddenPost],
                outputPre |-> h[st.forward.outputPre],
                outputPost |-> h[st.forward.outputPost],
                weights1 |-> MatrixOf(h, st.forward.weights1),
                weights2 |-> MatrixOf(h, st.forward.weights2),
                biases1 |-> h[st.forward.biases1],
                biases2 |-> h[st.forward.biases2]],
   backward |-> [loss |-> st.backward.loss,
                 outputGradients |-> h[st.backward.outputGradients],
                 hiddenGradients |-> h[st.backward.hiddenGradients],
                 weights2Gradients |-> MatrixOf(h, st.backward.weights2Gradients),
                 weights1Gradients |-> MatrixOf(h, st.backward.weights1Gradients),
                 biases2Gradients |-> h[st.backward.biases2Gradients],
                 biases1Gradients |-> h[st.backward.biases1Gradients]],
   after |-> ParamsOf(h, st.after)]

\* the parameters of a record's forward section
ForwardWeights(r) ==
  [weights1 |-> r.forward.weights1, weights2 |-> r.forward.weights2,
   biases1 |-> r.forward.biases1, biases2 |-> r.forward.biases2]

\* the tensors p have the shapes the constructor gives them
ConstructedShapes(p) ==
  /\ Len(p.weights1) = InputSize
  /\ \A i \in 1..Len(p.weights1) : Len(p.weights1[i]) = HiddenSize
  /\ Len(p.weights2) = HiddenSize
  /\ \A i \in 1..Len(p.weights2) : Len(p.weights2[i]) = OutputSize
  /\ Len(p.biases1) = HiddenSize
  /\ Len(p.biases2) = OutputSize

\* the call that just returned is a trainStep, and step is its record
StepReturned == lastOp.op = "trainStep" /\ step # NoStep /\ ~threw

\* ... on constructed shapes, with inputs and target of the right lengths
WellFormedStepReturned ==
  /\ StepReturned
  /\ ConstructedShapes(ParamsOf(heap, step.forward))
  /\ Len(lastOp.inputs) = InputSize
  /\ Len(lastOp.target) = OutputSize

\* m[i][j] == w[i][j] - rate * g[i][j] in every cell of w
MatrixStepped(m, w, g, rate) ==
  /\ Len(m) = Len(w)
  /\ \A i \in 1..Len(w) :
       /\ Len(m[i]) = Len(w[i])
       /\ \A j \in 1..Len(w[i]) :
            m[i][j] = Sub(w[i][j], Mul(rate, At2(g, i - 1, j - 1)))

\* v[i] == b[i] - rate * g[i] in every cell of b
VectorStepped(v, b, g, rate) ==
  /\ Len(v) = Len(b)
  /\ \A i \in 1..Len(b) : v[i] = Sub(b[i], Mul(rate, At(g, i - 1)))

----------------------------------------------------------------------------
(* The training-step record *)

GradientsOn(r, inputs, target, rate, task) ==
  ParameterGradients(HiddenLayerGradients(LossAndOutputGradients(
    [NewFrame(ForwardWeights(r), rate, task, inputs, target) EXCEPT
       !.hiddenPre = r.forward.hiddenPre, !.hiddenPost = r.forward.hiddenPost,
       !.outputPre = r.forward.outputPre, !.outputPost = r.forward.outputPost])))

\* C2: every gradient of a trainStep record is the one computed from the
\* parameter values held before the call (the record's forward section); in
\* particular the hidden layer's error is taken through forward.weights2.
GradientsFromPreUpdate ==
  StepReturned =>
    \A r \in {TrainingStep(heap, step)} :
    \A g \in {GradientsOn(r, lastOp.inputs, lastOp.target, learningRate, taskType)} :
      /\ r.backward.outputGradients = g.outputGradients
      /\ r.backward.hiddenGradients = g.hiddenGradients
      /\ r.backward.weights2Gradients = g.weights2Gradients
      /\ r.backward.weights1Gradients = g.weights1Gradients
      /\ r.backward.biases2Gradients = g.biases2Gradients
      /\ r.backward.biases1Gradients = g.biases1Gradients

\* a step that changed weights2 and has a hidden gradient other than zero
GradientsFromPreUpdateWitness ==
  /\ StepReturned
  /\ \E r \in {TrainingStep(heap, step)} :
       /\ r.after.weights2 # r.forward.weights2
       /\ \E k \in 1..Len(r.backward.hiddenGradients) :
            r.backward.hiddenGradients[k] \notin {Num(0), NaN}

RecordSnapshots ==
  [][(lastOp'.op = "trainStep" /\ calls' = calls + 1 /\ ~threw') =>
       \A r \in {TrainingStep(heap', step')} :
       \A before \in {getWeights(heap, Engine)} :
       \A after \in {getWeights(heap', Engine')} :
         /\ ForwardWeights(r) = ParamsOf(before.h, before.w)
         /\ r.after = ParamsOf(after.h, after.w)]_vars

\* a step returned whose two snapshots differ, the engine holding the later
RecordSnapshotsWitness ==
  /\ StepReturned
  /\ \E r \in {TrainingStep(heap, step)} :
       /\ r.after # ForwardWeights(r)
       /\ r.after = Params

\* C5: once trainStep has returned a record, no later operation on the engine
\* and no later write by the caller into the inputs array it passed changes
\* a value of the record, and biases2Gradients and biases1Gradients are
\* arrays of their own, not outputGradients and hiddenGradients.  (A later
\* trainStep returns another record; this one is followed until then.)
RecordIsImmutable ==
  [][(step # NoStep /\ lastOp'.op # "trainStep") =>
       /\ TrainingStep(heap', step') = TrainingStep(heap, step)
       /\ step.backward.biases2Gradients # step.backward.outputGradients
       /\ step.backward.biases1Gradients # step.backward.hiddenGradients]_vars

----------------------------------------------------------------------------
(* predict, getWeights and setWeights *)

\* C6: predict leaves weights1, weights2, biases1, biases2, learningRate and
\* taskType as they were, for inputs of any length, and a predict that
\* repeats the call before it returns the same output.
PredictIsPure ==
  [][lastOp'.op = "predict" =>
       /\ ParamsOf(heap', Engine') = Params
       /\ learningRate' = learningRate
       /\ taskType' = taskType
       /\ (lastOp'.repeats /\ ~threw') => out' = out]_vars

\* a predict on an input of the wrong length, repeated
PredictIsPureWitness ==
  /\ lastOp.op = "predict"
  /\ lastOp.repeats
  /\ Len(lastOp.inputs) # InputSize
  /\ Len(out) = OutputSize
  /\ ~threw

\* C7: setWeights(getWeights()) leaves the four tensors equal to what they
\* were, so predict returns the same output for every input as before.
RoundTrip ==
  [][(/\ lastOp'.op = "setWeights"
      /\ lastOp'.target = <<"held">>
      /\ calls' = calls + 1
  /\ UNCHANGED others
      /\ ParamsOf(heap, held) = Params) =>
       /\ ParamsOf(heap', Engine') = Params
       /\ \A inputs \in GoodInputs \cup BadInputs :
            predictValue(ParamsOf(heap', Engine'), taskType', inputs)
              = predictValue(Params, taskType, inputs)]_vars

\* getWeights copied the tensors and setWeights put the copy back
RoundTripWitness ==
  /\ lastOp.op = "setWeights"
  /\ lastOp.target = <<"held">>
  /\ lastOp.prev = "getWeights"
  /\ ParamsOf(heap, held) = Params
  /\ ConstructedShapes(Params)

\* the arrays of a weights object: its matrices, their rows, its bias arrays
ArraysOf(h, w) ==
  {w.weights1, w.weights2, w.biases1, w.biases2}
    \cup {h[w.weights1][r][2] : r \in 1..Len(h[w.weights1])}
    \cup {h[w.weights2][r][2] : r \in 1..Len(h[w.weights2])}

\* C8: the engine shares no array with the object getWeights() returned or
\* with the object passed to setWeights, so a caller's write into an array
\* of that object changes no tensor of the engine.
NoSharedStorage ==
  [][/\ held' # NoWeights =>
          ArraysOf(heap', held') \cap ArraysOf(heap', Engine') = {}
     /\ lastOp'.op = "mutateHeld" => ParamsOf(heap', Engine') = Params]_vars

\* the caller wrote into the object it holds, which now differs from the
\* engine's tensors
NoSharedStorageWitness ==
  /\ lastOp.op = "mutateHeld"
  /\ held # NoWeights
  /\ ParamsOf(heap, held) # Params
  /\ \E a \in ArraysOf(heap, held) : Len(heap[a]) > 0 /\ heap[a][1] = Written

\* C9: after a loss-landscape computation the engine's four tensors have the
\* values they had before it, for every number of sample points and also
\* when samples raise errors.
LandscapeRestores ==
  [][lastOp'.op = "landscape" => ParamsOf(heap', Engine') = Params]_vars

\* a computation in which a sample raised an error has finished
LandscapeRestoresWitness ==
  /\ lastOp.op = "landscape"
  /\ lastOp.target = <<"raised">>
  /\ Params = ParamsOf(heap, step.after)

----------------------------------------------------------------------------
(* Short inputs *)

\* the vector v padded with zeros up to length n
PaddedInput(v, n) ==
  Cells([k \in 1..n |-> IF k <= Len(v) THEN v[k] ELSE Num(0)])

\* C11: predict on an input vector shorter than inputSize returns what
\* predict returns on that vector padded with zeros up to length inputSize.
ShortInputPadded ==
  (/\ lastOp.op = "predict"
   /\ ~threw
   /\ ConstructedShapes(Params)
   /\ Len(lastOp.inputs) < InputSize)
    => out = predictValue(Params, taskType, PaddedInput(lastOp.inputs, InputSize))

----------------------------------------------------------------------------
(* Determinism *)

\* a second engine holding the parameters p in storage of its own, and its
\* trainStep(inputs, target): [threw, h, e, st]
TwinStep(p, rate, task, inputs, target) ==
  Let(AllocWeights(<<>>, p), LAMBDA built :
  Let(AllocArr(built.h, inputs), LAMBDA passed :
    IF trainStepThrows(p, inputs)
    THEN [threw |-> TRUE, h |-> passed.h, e |-> built.w, st |-> NoStep]
    ELSE
  Let(initialSnapshot(passed.h, built.w), LAMBDA snap :
  Let(trainStepBody(NewFrame(p, rate, task, inputs, target)), LAMBDA f :
  Let(WriteParams(snap.h, built.w,
                  [weights1 |-> f.weights1, weights2 |-> f.weights2,
                   biases1 |-> f.biases1, biases2 |-> f.biases2]), LAMBDA updated :
  Let(MakeStep(updated, built.w, f, snap.w, passed.a), LAMBDA made :
    [threw |-> FALSE, h |-> made.h, e |-> built.w, st |-> made.st]))))))

----------------------------------------------------------------------------
(* The learning rate *)

\* the record r steps every tensor by rate times its gradient
SteppedBy(r, rate) ==
  /\ MatrixStepped(r.after.weights1, r.forward.weights1,
                   r.backward.weights1Gradients, rate)
  /\ MatrixStepped(r.after.weights2, r.forward.weights2,
                   r.backward.weights2Gradients, rate)
  /\ VectorStepped(r.after.biases1, r.forward.biases1,
                   r.backward.biases1Gradients, rate)
  /\ VectorStepped(r.after.biases2, r.forward.biases2,
                   r.backward.biases2Gradients, rate)

\* C14: setLearningRate(rate) sets learningRate to rate and leaves the four
\* tensors, the task type and the record of an earlier trainStep as they
\* were; a well-formed trainStep that follows it steps every tensor by that
\* rate times its gradient.
SetLearningRateOnlyRate ==
  [][/\ lastOp'.op = "setLearningRate" =>
          /\ learningRate' = lastOp'.target[1]
          /\ ParamsOf(heap', Engine') = Params
          /\ taskType' = taskType
          /\ step # NoStep =>
               step' # NoStep /\ TrainingStep(heap', step') = TrainingStep(heap, step)
     /\ (lastOp.op = "setLearningRate" /\ WellFormedStepReturned') =>
          SteppedBy(TrainingStep(heap', step'), lastOp.target[1])]_vars

\* a well-formed trainStep right after setLearningRate, whose update is not
\* the one the constructor's rate gives
SetLearningRateOnlyRateWitness ==
  /\ WellFormedStepReturned
  /\ lastOp.prev = "setLearningRate"
  /\ learningRate # constructed.learningRate
  /\ ~SteppedBy(TrainingStep(heap, step), constructed.learningRate)

\* setLearningRate ran on an engine that had returned a record
RecordOutlivesRateWitness ==
  /\ lastOp.op = "setLearningRate"
  /\ step # NoStep
  /\ learningRate # constructed.learningRate

----------------------------------------------------------------------------
(* The task type *)

\* C15: after any sequence of predict, trainStep, getWeights, setWeights and
\* setLearningRate calls the engine's task type is the one its constructor
\* was given, and getTaskType() returns it.
TaskTypeIsFixed ==
  /\ taskType = constructed.taskType
  /\ lastOp.op = "getTaskType" => out = <<constructed.taskType>>

\* getTaskType returned on a regression engine after a trainStep
TaskTypeIsFixedWitness ==
  /\ lastOp.op = "getTaskType"
  /\ lastOp.prev = "trainStep"
  /\ constructed.taskType = Regression
  /\ out = <<Regression>>

----------------------------------------------------------------------------
(* The loss *)

\* the call that just returned is a trainStep on a valid example: inputs of
\* length inputSize, a target of length outputSize with entries in [0, 1]
ValidStepReturned ==
  /\ StepReturned
  /\ Len(lastOp.inputs) = InputSize
  /\ Len(lastOp.target) = OutputSize
  /\ \A k \in 1..Len(lastOp.target) :
       IsNum(lastOp.target[k]) /\ lastOp.target[k][2] \in 0..One

\* no entry of the tensors p is NaN
NoNaN(p) ==
  /\ \A i \in 1..Len(p.weights1) : \A j \in 1..Len(p.weights1[i]) : p.weights1[i][j] # NaN
  /\ \A i \in 1..Len(p.weights2) : \A j \in 1..Len(p.weights2[i]) : p.weights2[i][j] # NaN
  /\ \A i \in 1..Len(p.biases1) : p.biases1[i] # NaN
  /\ \A i \in 1..Len(p.biases2) : p.biases2[i] # NaN

\* the step ran on parameters without NaN and produced an output entry
NumericStep(r) == NoNaN(ForwardWeights(r)) /\ r.forward.outputPost # <<>>

LossIsNaNWitness ==
  /\ ValidStepReturned
  /\ step.backward.loss = NaN

\* the arguments of Math.log in the cross-entropy of the outputs
LogArguments(outputPost) ==
  {Clamp(outputPost[k]) : k \in 1..Len(outputPost)}
    \cup {OneMinus(Clamp(outputPost[k])) : k \in 1..Len(outputPost)}

\* x lies in [epsilon, 1 - epsilon]
WithinClamp(x) ==
  x = Epsilon \/ x = OneLessEpsilon \/ (IsNum(x) /\ x[2] > 0 /\ x[2] < One)

----------------------------------------------------------------------------
(* BackpropPlayground: the component that owns an engine (network), the    *)
(* record of its last step (currentStep, the variable step) and the        *)
(* training loop.  An event handler, the render it causes and the effects  *)
(* of that render are one step: initializeNetwork runs when one of its     *)
(* dependencies changed, and the interval is registered again with the     *)
(* performTrainingStep of the render.  What the render computes for the    *)
(* charts leaves the engine's values as they were.                         *)

MaxEvents == 5      \* events of one run of the page
MaxSamples == 2     \* examples of a generated dataset

DatasetNames == {"xor", "spiral", "linear_regression"}

generateXORData ==
  << [inputs |-> <<Num(0), Num(0)>>, targets |-> <<Num(0)>>],
     [inputs |-> <<Num(0), Num(One)>>, targets |-> <<Num(One)>>],
     [inputs |-> <<Num(One), Num(0)>>, targets |-> <<Num(One)>>],
     [inputs |-> <<Num(One), Num(One)>>, targets |-> <<Num(0)>> ] >>

\* y = 1.8 * x + 0.5 for x in [-1, 1), one x per example, with no noise
generateLinearRegressionData ==
  Cells([k \in 1..MaxSamples |->
     LET x == 3 * k - 3 - One
     IN [inputs |-> <<Num(x)>>, targets |-> <<Num(RoundDiv(18 * x, 10) + One \div 2)>>]])

\* the first examples of the two spiral arms, which start at the origin and
\* leave it on opposite sides, with no noise
generateSpiralData ==
  Cells([k \in 1..MaxSamples |->
     LET i == (k - 1) \div 2
     IN IF k % 2 = 1
        THEN [inputs |-> <<Num(i), Num(i)>>, targets |-> <<Num(0)>>]
        ELSE [inputs |-> <<Num(-i), Num(-i)>>, targets |-> <<Num(One)>>]])

\* the page's learning rates 0.01, 0.05 and 0.1 lie below the fixed-point
\* unit: they stand as 1, 2 and 3 units, the slider's largest rate 0.5 as 4
RegressionRate == Num(1)
DefaultRate == Num(2)
SpiralRate == Num(3)
SliderRates == {Num(4)}

\* a hidden-size slider without its min and max attributes
AnyHiddenSizes == {0, 2, 13}

\* values of the hidden-size slider, with its least and its greatest, and of
\* the speed slider
SliderHiddenSizes == {1, 2, 12}
SliderSpeeds == {50, 1000}

\* what changeDataset sets for a dataset
DatasetConfig(name) ==
  IF name = "linear_regression"
  THEN [trainingData |-> generateLinearRegressionData, taskType |-> Regression,
        hiddenSize |-> 2, learningRate |-> RegressionRate]
  ELSE IF name = "spiral"
  THEN [trainingData |-> generateSpiralData, taskType |-> Classification,
        hiddenSize |-> 10, learningRate |-> SpiralRate]
  ELSE [trainingData |-> generateXORData, taskType |-> Classification,
        hiddenSize |-> 6, learningRate |-> DefaultRate]

\* the state hooks' initial values
Mounted ==
  [isTraining |-> FALSE, stepNumber |-> 0, lossData |-> <<>>,
   trainingData |-> generateXORData, currentDataIndex |-> 0, speed |-> 1000,
   learningRate |-> DefaultRate, hiddenSize |-> 6, datasetName |-> "xor",
   currentTaskType |-> Classification, lossWeightTrajectoryData |-> <<>>,
   interval |-> NoInterval, trained |-> 0, sinceReset |-> 0]

\* the interval effect's cleanup is missing: an interval, once registered,
\* keeps firing
RenderedNoCleanup(d) ==
  [d EXCEPT !.interval =
     IF d.isTraining \/ d.interval.on
     THEN [on |-> TRUE, currentDataIndex |-> d.currentDataIndex,
           stepNumber |-> d.stepNumber]
     ELSE NoInterval]

\* performTrainingStep is not among the interval effect's dependencies: a
\* registered interval keeps the callback it was registered with
RenderedStale(d) ==
  [d EXCEPT !.interval =
     IF ~d.isTraining THEN NoInterval
     ELSE IF d.interval.on THEN d.interval
     ELSE [on |-> TRUE, currentDataIndex |-> d.currentDataIndex,
           stepNumber |-> d.stepNumber]]

\* the component after the render of state d and its interval effect: the
\* old interval is cleared and, while training, one is registered with the
\* render's performTrainingStep, which closes over d's values
Rendered(d) ==
  [d EXCEPT !.interval =
     IF d.isTraining
     THEN [on |-> TRUE, currentDataIndex |-> d.currentDataIndex,
           stepNumber |-> d.stepNumber]
     ELSE NoInterval]

\* slice(0, cap): the oldest cap entries are kept
CappedOldest(data, cap) ==
  IF Len(data) > cap THEN SubSeq(data, 1, cap) ELSE data

\* newData.length > cap: the last cap entries
Capped(data, cap) ==
  IF Len(data) > cap THEN SubSeq(data, Len(data) - cap + 1, Len(data)) ELSE data

\* what an event of the page leaves alone, besides what it names
DriverFrame(name, inputs, target) ==
  /\ calls < MaxEvents
  /\ lastOp' = Op(name, inputs, target)
  /\ out' = <<>>
  /\ calls' = calls + 1
  /\ UNCHANGED tfjs

\* the history setters of initializeNetwork, without the trajectory's
initializeNetworkPartial(d) ==
  [d EXCEPT !.stepNumber = 0, !.lossData = <<>>, !.currentDataIndex = 0,
            !.trained = 0]

\* initializeNetwork's setters, but for setNetwork and setCurrentStep
initializeNetwork(d) ==
  [d EXCEPT !.stepNumber = 0, !.lossData = <<>>, !.currentDataIndex = 0,
            !.lossWeightTrajectoryData = <<>>, !.trained = 0]

\* initializeNetwork with two inputs for every dataset
InitializeNetworkTwoInputs(d, draw) ==
  /\ \E made \in {AllocWeights(<<>>,
                    NewNetwork(InputSize, d.hiddenSize, OutputSize, draw[1], draw[2]))} :
       Commit(made.h, made.w, NoWeights, 0, NoStep)
  /\ learningRate' = d.learningRate
  /\ taskType' = d.currentTaskType
  /\ constructed' = [learningRate |-> d.learningRate, taskType |-> d.currentTaskType]
  /\ threw' = threw
  /\ driver' = Rendered(initializeNetwork(d))

\* initializeNetwork on the state d: a new engine of d's configuration with
\* the draws draw replaces the network, and currentStep is null
InitializeNetwork(d, draw) ==
  /\ \E made \in {AllocWeights(<<>>,
                    NewNetwork(IF d.datasetName = "linear_regression" THEN 1
                               ELSE InputSize,
                               d.hiddenSize, OutputSize, draw[1], draw[2]))} :
       Commit(made.h, made.w, NoWeights, 0, NoStep)
  /\ learningRate' = d.learningRate
  /\ taskType' = d.currentTaskType
  /\ constructed' = [learningRate |-> d.learningRate, taskType |-> d.currentTaskType]
  /\ threw' = threw
  /\ driver' = Rendered(initializeNetwork(d))

\* changeDataset's setters, but for setCurrentStep
changeDataset(d, newDatasetName) ==
  LET new == DatasetConfig(newDatasetName)
  IN [d EXCEPT !.datasetName = newDatasetName,
               !.trainingData = new.trainingData,
               !.currentTaskType = new.taskType,
               !.hiddenSize = new.hiddenSize,
               !.learningRate = new.learningRate,
               !.currentDataIndex = 0, !.stepNumber = 0, !.lossData = <<>>]

\* performTrainingStep's setters with an index that advances without
\* wrapping
recordedNoWrap(d, c, r) ==
  [d EXCEPT
     !.stepNumber = @ + 1,
     !.lossData = Capped(Append(@, [step |-> c.stepNumber + 1,
                                    loss |-> r.backward.loss]), 200),
     !.lossWeightTrajectoryData =
        IF /\ At2(r.forward.weights1, 0, 0) # Undef
           /\ At2(r.backward.weights1Gradients, 0, 0) # Undef
        THEN Capped(Append(@, [step |-> c.stepNumber + 1,
                               loss |-> r.backward.loss,
                               weightValue |-> r.forward.weights1[1][1],
                               weightGradient |-> r.backward.weights1Gradients[1][1]]),
                    100)
        ELSE @,
     !.currentDataIndex = @ + 1,
     !.trained = @ + 1,
     !.sinceReset = @ + 1]

\* performTrainingStep's setters for the record r, in the callback that
\* closed over c.stepNumber
recorded(d, c, r) ==
  [d EXCEPT
     !.stepNumber = @ + 1,
     !.lossData = Capped(Append(@, [step |-> c.stepNumber + 1,
                                    loss |-> r.backward.loss]), 200),
     !.lossWeightTrajectoryData =
        IF /\ At2(r.forward.weights1, 0, 0) # Undef
           /\ At2(r.backward.weights1Gradients, 0, 0) # Undef
        THEN Capped(Append(@, [step |-> c.stepNumber + 1,
                               loss |-> r.backward.loss,
                               weightValue |-> r.forward.weights1[1][1],
                               weightGradient |-> r.backward.weights1Gradients[1][1]]),
                    100)
        ELSE @,
     !.currentDataIndex = (@ + 1) % Len(d.trainingData),
     !.trained = @ + 1,
     !.sinceReset = @ + 1]

\* performTrainingStep, the callback that closed over c.currentDataIndex and
\* c.stepNumber, run by the event name; reading data.inputs raises a
\* TypeError when the index is past the end of trainingData
PerformTrainingStep(name, c) ==
  IF c.currentDataIndex >= Len(driver.trainingData)
  THEN /\ DriverFrame(name, <<>>, <<>>)
       /\ threw' = TRUE
       /\ UNCHANGED <<storage, learningRate, taskType, constructed, driver>>
  ELSE \E data \in {driver.trainingData[c.currentDataIndex + 1]} :
         /\ DriverFrame(name, data.inputs, data.targets)
         /\ trainStepCall(data.inputs, data.targets)
         /\ UNCHANGED <<learningRate, taskType, constructed>>
         /\ driver' = IF trainStepThrows(Params, data.inputs) THEN driver
                      ELSE Rendered(recorded(driver, c, TrainingStep(heap', step')))

\* the interval fires
Timer ==
  /\ driver.interval.on
  /\ PerformTrainingStep("timer", driver.interval)

\* the Step button without its disabled attribute
StepButtonEnabled ==
  PerformTrainingStep("step", [on |-> FALSE,
                               currentDataIndex |-> driver.currentDataIndex,
                               stepNumber |-> driver.stepNumber])

\* the Step button, enabled while not training, runs the performTrainingStep
\* of the last render
StepButton ==
  /\ ~driver.isTraining
  /\ PerformTrainingStep("step", [on |-> FALSE,
                                  currentDataIndex |-> driver.currentDataIndex,
                                  stepNumber |-> driver.stepNumber])

\* the Start / Pause button
StartPause ==
  /\ DriverFrame("startPause", <<>>, <<>>)
  /\ driver' = Rendered([driver EXCEPT !.isTraining = ~@])
  /\ UNCHANGED <<storage, learningRate, taskType, constructed, threw>>

\* the Reset button
Reset(draw) ==
  /\ DriverFrame("reset", <<>>, <<>>)
  /\ InitializeNetwork([driver EXCEPT !.sinceReset = 0], draw)

\* the dataset select: initializeNetwork changed with datasetName and runs
\* as an effect
ChangeDataset(newDatasetName, draw) ==
  /\ newDatasetName # driver.datasetName
  /\ DriverFrame("changeDataset", <<>>, <<>>)
  /\ InitializeNetwork([changeDataset(driver, newDatasetName) EXCEPT !.sinceReset = 0],
                       draw)

\* the hidden-size slider, enabled while not training
HiddenSizeSlider(size, draw) ==
  /\ ~driver.isTraining
  /\ size # driver.hiddenSize
  /\ DriverFrame("hiddenSize", <<>>, <<>>)
  /\ InitializeNetwork([driver EXCEPT !.hiddenSize = size], draw)

\* the learning-rate slider: network.setLearningRate(lr) on the engine that
\* the effect then replaces
LearningRateSlider(lr, draw) ==
  /\ lr # driver.learningRate
  /\ DriverFrame("learningRate", <<>>, <<lr>>)
  /\ InitializeNetwork([driver EXCEPT !.learningRate = lr], draw)

\* the speed slider
SpeedSlider(ms) ==
  /\ ms # driver.speed
  /\ DriverFrame("speed", <<>>, <<>>)
  /\ driver' = Rendered([driver EXCEPT !.speed = ms])
  /\ UNCHANGED <<storage, learningRate, taskType, constructed, threw>>

\* the component is mounted: the first render's effect runs initializeNetwork
DriverInit ==
  \E draw \in InitVals :
    \E made \in {AllocWeights(<<>>, NewNetwork(InputSize, Mounted.hiddenSize,
                                               OutputSize, draw[1], draw[2]))} :
    \E c \in {Canon(made.h, made.w, NoWeights, 0, NoStep)} :
       /\ heap = c.h
       /\ weights1 = c.e.weights1
       /\ weights2 = c.e.weights2
       /\ biases1 = c.e.biases1
       /\ biases2 = c.e.biases2
       /\ learningRate = Mounted.learningRate
       /\ taskType = Mounted.currentTaskType
       /\ held = NoWeights
       /\ inp = 0
       /\ step = NoStep
       /\ out = <<>>
       /\ lastOp = [op |-> "mount", inputs |-> <<>>, target |-> <<>>,
                    prev |-> "", repeats |-> FALSE]
       /\ threw = FALSE
       /\ calls = 0
       /\ constructed = [learningRate |-> Mounted.learningRate,
                         taskType |-> Mounted.currentTaskType]
       /\ driver = Rendered(initializeNetwork(Mounted))
       /\ tfjs = NotLoaded

DriverNext ==
  \/ Timer
  \/ StepButton
  \/ StartPause
  \/ \E draw \in InitVals : Reset(draw)
  \/ \E name \in DatasetNames, draw \in InitVals : ChangeDataset(name, draw)
  \/ \E size \in SliderHiddenSizes, draw \in InitVals : HiddenSizeSlider(size, draw)
  \/ \E lr \in SliderRates, draw \in InitVals : LearningRateSlider(lr, draw)
  \/ \E ms \in SliderSpeeds : SpeedSlider(ms)

DriverSpec == DriverInit /\ [][DriverNext]_vars

----------------------------------------------------------------------------
(* Reset and reconfiguration in the playground *)

\* the events that run initializeNetwork
Reinitializing == {"reset", "changeDataset", "hiddenSize", "learningRate"}

\* the parameters a new engine of the configuration d can start from
FreshParams(d) ==
  {NewNetwork(IF d.datasetName = "linear_regression" THEN 1 ELSE InputSize,
              d.hiddenSize, OutputSize, draw[1], draw[2]) : draw \in InitVals}

ResetWhileTrainingWitness ==
  /\ lastOp.op = "reset"
  /\ lastOp.prev = "timer"
  /\ driver.isTraining

----------------------------------------------------------------------------
(* The training loop of the playground *)

\* the events that run performTrainingStep
Training == {"timer", "step"}

\* the example a training step is given when k steps came before it
Example(d, k) == d.trainingData[(k % Len(d.trainingData)) + 1]

\* C18 as stated: counting from the last Reset (or the mount, or the change
\* of dataset), the k-th training step trains on example (k-1) mod N.
RoundRobinSinceReset ==
  [][lastOp'.op \in Training =>
       /\ lastOp'.inputs = Example(driver, driver.sinceReset).inputs
       /\ lastOp'.target = Example(driver, driver.sinceReset).targets]_vars

\* C18: counting from the last run of initializeNetwork (the mount, a Reset,
\* or a change of dataset, hidden size or learning rate), the k-th training
\* step, by the timer or by the Step button, trains on example (k-1) mod N
\* and is recorded as step k.
RoundRobin ==
  [][lastOp'.op \in Training =>
       /\ lastOp'.inputs = Example(driver, driver.trained).inputs
       /\ lastOp'.target = Example(driver, driver.trained).targets
       /\ driver'.trained = driver.trained + 1
       /\ driver'.stepNumber = driver'.trained
       /\ driver'.currentDataIndex = driver'.trained % Len(driver.trainingData)]_vars

\* the timer's step after one round trained on the first example again: the
\* cycle over the examples has wrapped
RoundRobinWitness ==
  /\ lastOp.op = "timer"
  /\ lastOp.prev = "timer"
  /\ driver.trained = MaxSamples + 1
  /\ Len(driver.trainingData) = MaxSamples
  /\ lastOp.inputs = driver.trainingData[1].inputs
  /\ driver.currentDataIndex = 1

\* a step by the Step button follows a step by the timer and takes the next
\* example
RoundRobinMixedWitness ==
  /\ lastOp.op = "step"
  /\ driver.trained = 2
  /\ driver.sinceReset = 2
  /\ ~driver.isTraining
  /\ lastOp.inputs = driver.trainingData[2].inputs

\* the learning rate was changed after a step: the next step starts over at
\* the first example
RestartedByRateWitness ==
  /\ lastOp.op \in Training
  /\ driver.sinceReset = 2
  /\ driver.trained = 1
  /\ lastOp.inputs = driver.trainingData[1].inputs

----------------------------------------------------------------------------
(* Pausing the playground *)

\* the events that C20 lets end a pause
EndsPause == {"startPause", "step"} \cup Reinitializing

\* C20: while isTraining is false, a step that is none of Start, Step, Reset
\* or a reconfiguration is not a timer's step and leaves the parameters, the
\* step number, the loss history and the data index as they were; no
\* interval is registered.
PausedIsStill ==
  [][(~driver.isTraining /\ lastOp'.op \notin EndsPause) =>
       /\ lastOp'.op # "timer"
       /\ ~driver.interval.on
       /\ Params' = Params
       /\ driver'.stepNumber = driver.stepNumber
       /\ driver'.lossData = driver.lossData
       /\ driver'.currentDataIndex = driver.currentDataIndex]_vars

\* the speed was changed during a pause that followed a timer's step
PausedIsStillWitness ==
  /\ lastOp.op = "speed"
  /\ lastOp.prev = "startPause"
  /\ ~driver.isTraining
  /\ driver.stepNumber > 0
  /\ Len(driver.lossData) > 0

----------------------------------------------------------------------------
(* The TensorFlow.js playground page: its network (isTraining,             *)
(* iterationCount), the script's animationFrameId and the loop             *)
(* animationLoop, which awaits trainStep and then requests the next frame. *)
(* A click handler runs to its end; an animationLoop call runs up to its   *)
(* await, and from the await's completion to its end.                      *)

MaxClicks == 5     \* clicks of one run of the page
MaxFrames == 2     \* frames requested in one run of the page

\* learning rates in thousandths (0.03 is the network's own) and activations
\* that the page's controls offer
TfRates == {30, 100}
Activations == {"relu", "tanh"}

\* a neuron count of the first layer's slider that is not the default
LayerSizes == {4}

\* initializeModel without the reset of the counters
initializeModelKeepsHistory(t) ==
  [t EXCEPT !.model = @ + 1]

\* initializeModel(): a new model replaces the old one, iterationCount is 0
\* and lossHistory empty
initializeModel(t) ==
  [t EXCEPT !.model = @ + 1, !.iterationCount = 0, !.lossHistory = <<>>]

\* new NeuralNetwork() of the page, once the script has run
Loaded ==
  initializeModel([NotLoaded EXCEPT !.loaded = TRUE, !.hiddenLayers = <<8>>,
                                    !.learningRate = 30, !.activation = "relu"])

\* updateConfiguration(hiddenLayers, learningRate, activation): a learning
\* rate of 0 and an empty activation are falsy and ignored
updateConfiguration(t, hiddenLayers, rate, activation) ==
  LET newRate == IF rate # 0 THEN rate ELSE t.learningRate
      newActivation == IF activation # "" THEN activation ELSE t.activation
  IN IF \/ hiddenLayers # t.hiddenLayers
        \/ newRate # t.learningRate
        \/ newActivation # t.activation
     THEN initializeModel([t EXCEPT !.hiddenLayers = hiddenLayers,
                                    !.learningRate = newRate,
                                    !.activation = newActivation])
     ELSE t

\* the add-layer handler without its limit
addLayerUnlimited(t) ==
  updateConfiguration(t, Append(t.hiddenLayers, 8), t.learningRateInput,
                      t.activationSelect)

\* the add-layer click handler
addLayer(t) ==
  IF Len(t.hiddenLayers) < 5
  THEN updateConfiguration(t, Append(t.hiddenLayers, 8), t.learningRateInput,
                           t.activationSelect)
  ELSE t

\* the remove-layer click handler
removeLayer(t) ==
  IF Len(t.hiddenLayers) > 1
  THEN updateConfiguration(t, SubSeq(t.hiddenLayers, 1, Len(t.hiddenLayers) - 1),
                           t.learningRateInput, t.activationSelect)
  ELSE t

\* trainStep that counts the iteration before trainOnBatch has succeeded
trainStepCountsAttempt(t, ok) ==
  IF ok THEN [t EXCEPT !.iterationCount = @ + 1, !.lossHistory = Append(@, "loss")]
  ELSE [t EXCEPT !.iterationCount = @ + 1]

\* trainStep(data) from trainOnBatch's completion on: with a loss (ok) the
\* iteration is counted and the loss pushed; after an error, or without a
\* model or data, null is returned
trainStep(t, ok) ==
  IF ok THEN [t EXCEPT !.iterationCount = @ + 1, !.lossHistory = Append(@, "loss")]
  ELSE t

\* animationLoop() up to its await: a trainStep call begins when the network
\* is training
animationLoop(t) ==
  IF t.isTraining THEN [t EXCEPT !.awaiting = @ + 1] ELSE t

\* cancelAnimationFrame(animationFrameId), when it is set
cancelAnimationFrame(t) ==
  IF t.animationFrameId # 0
  THEN [t EXCEPT !.frames = @ \ {t.animationFrameId}, !.animationFrameId = 0]
  ELSE t

\* an event of the page; the engine of the other playground is not on it
TfFrame(name) ==
  /\ lastOp' = Op(name, <<>>, <<>>)
  /\ UNCHANGED <<storage, learningRate, taskType, constructed, driver, out, threw>>

\* the play/pause button
PlayPause ==
  /\ calls < MaxClicks
  /\ calls' = calls + 1
  /\ TfFrame("playPause")
  /\ tfjs' = IF tfjs.isTraining
             THEN cancelAnimationFrame([tfjs EXCEPT !.isTraining = FALSE])
             ELSE animationLoop([tfjs EXCEPT !.isTraining = TRUE])

\* the reset button: network.reset() builds a new model
ResetButton ==
  /\ calls < MaxClicks
  /\ calls' = calls + 1
  /\ TfFrame("resetButton")
  /\ tfjs' = initializeModel(tfjs)

\* the add-layer button
AddLayer ==
  /\ calls < MaxClicks
  /\ calls' = calls + 1
  /\ TfFrame("addLayer")
  /\ tfjs' = addLayer(tfjs)

\* the remove-layer button
RemoveLayer ==
  /\ calls < MaxClicks
  /\ calls' = calls + 1
  /\ TfFrame("removeLayer")
  /\ tfjs' = removeLayer(tfjs)

\* the slider of the first hidden layer
LayerSize(value) ==
  /\ calls < MaxClicks
  /\ calls' = calls + 1
  /\ TfFrame("layerSize")
  /\ tfjs' = updateConfiguration(tfjs, [tfjs.hiddenLayers EXCEPT ![1] = value],
                                 tfjs.learningRateInput, tfjs.activationSelect)

\* the learning-rate input
LearningRateInput(value) ==
  /\ calls < MaxClicks
  /\ calls' = calls + 1
  /\ value # tfjs.learningRateInput
  /\ TfFrame("learningRateInput")
  /\ tfjs' = updateConfiguration([tfjs EXCEPT !.learningRateInput = value],
                                 tfjs.hiddenLayers, value, tfjs.activationSelect)

\* the activation select
ActivationSelect(value) ==
  /\ calls < MaxClicks
  /\ calls' = calls + 1
  /\ value # tfjs.activationSelect
  /\ TfFrame("activationSelect")
  /\ tfjs' = updateConfiguration([tfjs EXCEPT !.activationSelect = value],
                                 tfjs.hiddenLayers, tfjs.learningRateInput, value)

\* a trainStep call completes with trainOnBatch's loss (ok) or, trainOnBatch
\* having failed, with null; animationLoop goes on from its await and
\* requests the next frame
TrainStepCompletes(ok) ==
  /\ tfjs.awaiting > 0
  /\ tfjs.requested < MaxFrames
  /\ calls' = calls
  /\ TfFrame("trainStep")
  /\ tfjs' = [trainStep(tfjs, ok) EXCEPT
                          !.awaiting = @ - 1,
                          !.requested = @ + 1,
                          !.animationFrameId = tfjs.requested + 1,
                          !.frames = @ \cup {tfjs.requested + 1}]

\* the browser runs a requested frame: animationLoop is called
FrameRuns(id) ==
  /\ id \in tfjs.frames
  /\ calls' = calls
  /\ TfFrame("frame")
  /\ tfjs' = animationLoop([tfjs EXCEPT !.frames = @ \ {id}])

\* the script has run; the page's learning-rate input and activation select
\* hold the values of its markup
TfInit ==
  /\ heap = <<>>
  /\ weights1 = 0
  /\ weights2 = 0
  /\ biases1 = 0
  /\ biases2 = 0
  /\ learningRate = Num(0)
  /\ taskType = ""
  /\ held = NoWeights
  /\ inp = 0
  /\ step = NoStep
  /\ out = <<>>
  /\ lastOp = [op |-> "load", inputs |-> <<>>, target |-> <<>>,
               prev |-> "", repeats |-> FALSE]
  /\ threw = FALSE
  /\ calls = 0
  /\ constructed = [learningRate |-> Num(0), taskType |-> ""]
  /\ driver = Unmounted
  /\ \E rate \in TfRates, activation \in Activations :
       tfjs = [Loaded EXCEPT !.learningRateInput = rate,
                             !.activationSelect = activation]

TfNext ==
  \/ PlayPause
  \/ ResetButton
  \/ AddLayer
  \/ RemoveLayer
  \/ \E value \in LayerSizes : LayerSize(value)
  \/ \E value \in TfRates : LearningRateInput(value)
  \/ \E value \in Activations : ActivationSelect(value)
  \/ \E ok \in BOOLEAN : TrainStepCompletes(ok)
  \/ \E id \in 1..MaxFrames : FrameRuns(id)

TfSpec == TfInit /\ [][TfNext]_vars

\* the animationLoop chains that are alive: the calls at their await and the
\* frames that will call animationLoop
Chains == tfjs.awaiting + Cardinality(tfjs.frames)

\* C19: no trainStep call begins while another has not completed, and at most
\* one animationLoop chain is alive.
TrainStepsSerialized ==
  /\ tfjs.awaiting <= 1
  /\ Chains <= 1

\* Start, Pause and Start again while the first trainStep is awaiting: two
\* trainStep calls are in flight
TwoStepsInFlight ==
  /\ tfjs.awaiting = 2
  /\ tfjs.isTraining
  /\ tfjs.requested = 0
  /\ calls = 3

----------------------------------------------------------------------------
(* Single steps *)

\* C21: a click on Step happens only while isTraining is false, and moves the
\* engine by one trainStep on the current example: the parameters and the
\* record are those of that one trainStep, the step number grows by 1, the
\* loss history ends with the one new entry after entries it held before, and
\* the data index advances by one modulo the number of examples.
StepButtonStepsOnce ==
  [][lastOp'.op = "step" =>
       \E data \in {driver.trainingData[driver.currentDataIndex + 1]} :
       \E twin \in {TwinStep(Params, learningRate, taskType,
                             data.inputs, data.targets)} :
       \E n \in {Len(driver'.lossData)} :
         /\ ~driver.isTraining
         /\ ~twin.threw
         /\ lastOp'.inputs = data.inputs
         /\ lastOp'.target = data.targets
         /\ ParamsOf(heap', Engine') = ParamsOf(twin.h, twin.e)
         /\ TrainingStep(heap', step') = TrainingStep(twin.h, twin.st)
         /\ driver'.stepNumber = driver.stepNumber + 1
         /\ n = Len(driver.lossData) + 1
         /\ driver'.lossData[n] = [step |-> driver.stepNumber + 1,
                                   loss |-> step'.backward.loss]
         /\ SubSeq(driver'.lossData, 1, n - 1) = driver.lossData
         /\ driver'.currentDataIndex =
              (driver.currentDataIndex + 1) % Len(driver.trainingData)]_vars

\* Step was clicked again after a click on Step, as the third step
StepButtonStepsOnceWitness ==
  /\ lastOp.op = "step"
  /\ lastOp.prev = "step"
  /\ driver.stepNumber = 3
  /\ Len(driver.lossData) = 3
  /\ driver.currentDataIndex = 3 % Len(driver.trainingData)

----------------------------------------------------------------------------
(* The hidden layer's size in the playground *)

HiddenSizeBeyondEightWitness ==
  \/ driver.hiddenSize = 10 /\ driver.datasetName = "spiral" /\ driver.stepNumber > 0
  \/ driver.hiddenSize = 1 /\ driver.stepNumber > 0

----------------------------------------------------------------------------
(* The hidden layers of the TensorFlow.js network *)

\* C23: the network has at least 1 and at most 5 hidden layers; an add-layer
\* click at 5 layers and a remove-layer click at 1 layer leave the network
\* (its configuration, model, iterationCount and lossHistory) and the rest of
\* the page as they were.
LayerCountLimited ==
  [][/\ Len(tfjs.hiddenLayers) \in 1..5
     /\ Len(tfjs'.hiddenLayers) \in 1..5
     /\ (lastOp'.op = "addLayer" /\ Len(tfjs.hiddenLayers) = 5) => tfjs' = tfjs
     /\ (lastOp'.op = "removeLayer" /\ Len(tfjs.hiddenLayers) = 1) => tfjs' = tfjs
     /\ (lastOp'.op = "addLayer" /\ Len(tfjs.hiddenLayers) < 5) =>
           /\ tfjs'.hiddenLayers = Append(tfjs.hiddenLayers, 8)
           /\ tfjs'.model # tfjs.model
     /\ (lastOp'.op = "removeLayer" /\ Len(tfjs.hiddenLayers) > 1) =>
           /\ Append(tfjs'.hiddenLayers, tfjs.hiddenLayers[Len(tfjs.hiddenLayers)])
                = tfjs.hiddenLayers
           /\ tfjs'.model # tfjs.model]_vars

\* add-layer was clicked a fifth time: the fifth click met five layers and
\* built no model
LayerCountLimitedWitness ==
  /\ lastOp.op = "addLayer"
  /\ lastOp.prev = "addLayer"
  /\ calls = 5
  /\ Len(tfjs.hiddenLayers) = 5
  /\ tfjs.model = 5

\* remove-layer was clicked at one layer after a trainStep had completed: the
\* first model and its history are still there
RemoveAtOneLayerWitness ==
  /\ lastOp.op = "removeLayer"
  /\ Len(tfjs.hiddenLayers) = 1
  /\ tfjs.model = 1
  /\ tfjs.iterationCount = 1
  /\ Len(tfjs.lossHistory) = 1

----------------------------------------------------------------------------
(* The counters of the TensorFlow.js network *)

\* C30: iterationCount is the length of lossHistory; a trainStep that
\* completes with a loss adds one to both, one that returns null changes
\* neither, and the reset button and every call of updateConfiguration that
\* builds a model set both to zero.
IterationCountIsHistoryLength ==
  [][/\ tfjs.iterationCount = Len(tfjs.lossHistory)
     /\ tfjs'.iterationCount = Len(tfjs'.lossHistory)
     /\ lastOp'.op = "trainStep" =>
          \/ /\ tfjs'.iterationCount = tfjs.iterationCount + 1
             /\ Len(tfjs'.lossHistory) = Len(tfjs.lossHistory) + 1
          \/ /\ tfjs'.iterationCount = tfjs.iterationCount
             /\ tfjs'.lossHistory = tfjs.lossHistory
     /\ (lastOp'.op = "resetButton" \/ tfjs'.model # tfjs.model) =>
          /\ tfjs'.iterationCount = 0
          /\ tfjs'.lossHistory = <<>>
     /\ tfjs'.model = tfjs.model =>
          /\ tfjs'.iterationCount >= tfjs.iterationCount
          /\ Len(tfjs'.lossHistory) >= Len(tfjs.lossHistory)]_vars

\* a trainStep returned null after one had returned a loss
IterationCountIsHistoryLengthWitness ==
  /\ lastOp.op = "trainStep"
  /\ tfjs.requested = 2
  /\ tfjs.iterationCount = 1
  /\ Len(tfjs.lossHistory) = 1

\* a trainStep that began on a model that was since replaced completed with a
\* loss: the new model's counters count it
StepOfReplacedModelWitness ==
  /\ lastOp.op = "trainStep"
  /\ lastOp.prev \in {"resetButton", "addLayer"}
  /\ tfjs.model = 2
  /\ tfjs.iterationCount = 1

----------------------------------------------------------------------------
(* predict and the forward pass of trainStep *)

\* C24: the record of a trainStep(inputs, target) holds as forward.outputPost
\* what predict(inputs) returns on the parameters before the step, which is
\* what a predict(inputs) called just before it did return; in regression
\* forward.outputPost equals forward.outputPre; and trainStep raises exactly
\* when predict does.
ForwardPassIsPredict ==
  [][lastOp'.op = "trainStep" =>
       IF predictThrows(Params, lastOp'.inputs) THEN threw'
       ELSE \E r \in {TrainingStep(heap', step')} :
              /\ threw' = threw
              /\ r.forward.outputPost = predictValue(Params, taskType, lastOp'.inputs)
              /\ (lastOp.op = "predict" /\ lastOp.inputs = lastOp'.inputs /\ ~threw)
                   => r.forward.outputPost = out
              /\ taskType = Regression => r.forward.outputPost = r.forward.outputPre
              /\ taskType = Classification =>
                   r.forward.outputPost = MapSigmoid(r.forward.outputPre)]_vars

\* a classification trainStep returned right after a predict, with outputs
\* that the sigmoid moved
ForwardPassIsPredictWitness ==
  /\ WellFormedStepReturned
  /\ lastOp.prev = "predict"
  /\ taskType = Classification
  /\ TrainingStep(heap, step).forward.outputPost
       # TrainingStep(heap, step).forward.outputPre

\* a regression trainStep returned right after a predict
ForwardPassRegressionWitness ==
  /\ WellFormedStepReturned
  /\ lastOp.prev = "predict"
  /\ taskType = Regression
  /\ TrainingStep(heap, step).forward.outputPre # <<Num(0)>>

----------------------------------------------------------------------------
(* The parameter gradients *)

\* m and w have the same number of rows, and row by row the same length
SameShape(m, w) ==
  /\ Len(m) = Len(w)
  /\ \A i \in 1..Len(m) : Len(m[i]) = Len(w[i])

\* the record r's parameter gradients are the outer products of its own
\* values, cell by cell, and have the shapes of its weights
OuterProducts(r, inputs) ==
  /\ SameShape(r.backward.weights2Gradients, r.forward.weights2)
  /\ SameShape(r.backward.weights1Gradients, r.forward.weights1)
  /\ \A h \in 1..Len(r.forward.hiddenPost) :
       \A o \in 1..Len(r.backward.outputGradients) :
         r.backward.weights2Gradients[h][o]
           = Mul(r.forward.hiddenPost[h], r.backward.outputGradients[o])
  /\ \A i \in 1..Len(inputs) :
       \A h \in 1..Len(r.backward.hiddenGradients) :
         r.backward.weights1Gradients[i][h]
           = Mul(inputs[i], r.backward.hiddenGradients[h])
  /\ r.backward.biases2Gradients = r.backward.outputGradients
  /\ r.backward.biases1Gradients = r.backward.hiddenGradients
  /\ Len(r.backward.outputGradients) = Len(r.forward.biases2)
  /\ Len(r.backward.hiddenGradients) = Len(r.forward.biases1)

\* C25: after a trainStep with inputs and target of the right lengths on
\* parameters of the constructed shapes, weights2Gradients[h][o] is
\* hiddenPost[h] * outputGradients[o], weights1Gradients[i][h] is
\* inputs[i] * hiddenGradients[h], the bias gradients are the output and the
\* hidden gradients, and the weight gradients have the weights' shapes.
GradientsAreOuterProducts ==
  WellFormedStepReturned =>
    /\ OuterProducts(TrainingStep(heap, step), lastOp.inputs)
    /\ TrainingStep(heap, step).forward.inputs = lastOp.inputs

\* a well-formed step with a weight gradient other than zero in each matrix
GradientsAreOuterProductsWitness ==
  /\ WellFormedStepReturned
  /\ NoNaN(ForwardWeights(TrainingStep(heap, step)))
  /\ \E r \in {TrainingStep(heap, step)} :
       /\ \E h \in 1..HiddenSize, o \in 1..OutputSize :
            r.backward.weights2Gradients[h][o] \notin {Num(0), NaN}
       /\ \E i \in 1..InputSize, h \in 1..HiddenSize :
            r.backward.weights1Gradients[i][h] \notin {Num(0), NaN}

----------------------------------------------------------------------------
(* The shapes of the tensors.  An engine on which only predict, trainStep, *)
(* getWeights, setLearningRate and getTaskType are called, by a caller who *)
(* may write into the arrays it holds.                                     *)

CoreNext ==
  \/ \E inputs \in GoodInputs \cup BadInputs : Predict(inputs)
  \/ \E call \in TrainCalls \cup (GoodInputs \X BadTargets) : TrainStep(call[1], call[2])
  \/ GetWeights
  \/ \E rate \in Rates : SetLearningRate(rate)
  \/ GetTaskType
  \/ MutateHeld
  \/ MutateInputs

CoreSpec == Init /\ [][CoreNext]_vars

\* C26: weights1 has inputSize rows of hiddenSize entries, weights2 has
\* hiddenSize rows of outputSize entries, biases1 has hiddenSize entries and
\* biases2 outputSize entries, after construction and after every predict,
\* trainStep (with inputs and targets of any length), getWeights and
\* setLearningRate.
ShapesAreInvariant == ConstructedShapes(Params)

\* a trainStep with too many inputs returned after a trainStep that had
\* changed the tensors
ShapesAreInvariantWitness ==
  /\ StepReturned
  /\ lastOp.prev = "trainStep"
  /\ Len(lastOp.inputs) > InputSize
  /\ \E draw \in InitVals : Params.biases2 # InitParams(draw[1], draw[2]).biases2

\* a trainStep with an empty target returned
EmptyTargetShapesWitness ==
  /\ StepReturned
  /\ lastOp.target = <<>>
  /\ \A draw \in InitVals : Params # InitParams(draw[1], draw[2])

----------------------------------------------------------------------------
(* The history buffers.  The page is taken up after a long run of the      *)
(* timer: the dataset was set to linear_regression, Start was clicked and  *)
(* the interval fired n times; the engine and the buffers are those that   *)
(* the n training steps leave.                                             *)

\* numbers of steps that leave the buffers just below and at their caps
WindowStarts == {99, 100, 199, 200}

\* the page and the engine's tensors when Start was clicked on the regression
\* dataset, for an engine of the draws draw
Started(draw) ==
  [p |-> NewNetwork(1, DatasetConfig("linear_regression").hiddenSize, OutputSize,
                    draw[1], draw[2]),
   d |-> Rendered([initializeNetwork(changeDataset(Mounted, "linear_regression"))
                     EXCEPT !.isTraining = TRUE])]

\* the page and the tensors after the interval fired once on s
TimerFired(s) ==
  Let(s.d.trainingData[s.d.currentDataIndex + 1], LAMBDA data :
  Let(trainStepBody(NewFrame(s.p, s.d.learningRate, s.d.currentTaskType,
                             data.inputs, data.targets)), LAMBDA f :
    [p |-> [weights1 |-> f.weights1, weights2 |-> f.weights2,
            biases1 |-> f.biases1, biases2 |-> f.biases2],
     d |-> Rendered(recorded(s.d, s.d.interval,
             [forward |-> [weights1 |-> s.p.weights1],
              backward |-> [loss |-> f.loss,
                            weights1Gradients |-> f.weights1Gradients]]))]))

\* the page and the tensors after the interval fired n times from start: the
\* first half of the run, then the rest
RECURSIVE Replayed(_, _)
Replayed(start, n) ==
  IF n = 0 THEN start
  ELSE IF n = 1 THEN TimerFired(start)
  ELSE Let(Replayed(start, n \div 2), LAMBDA half : Replayed(half, n - n \div 2))

\* the page after n steps of the timer
WindowInit ==
  \E n \in WindowStarts, draw \in InitVals :
    \E s \in {Replayed(Started(draw), n - 1)} :
    \E data \in {s.d.trainingData[s.d.currentDataIndex + 1]} :
    \E last \in {TwinStep(s.p, s.d.learningRate, s.d.currentTaskType,
                          data.inputs, data.targets)} :
    \E c \in {Canon(last.h, last.e, NoWeights, 0, last.st)} :
       /\ heap = c.h
       /\ weights1 = c.e.weights1
       /\ weights2 = c.e.weights2
       /\ biases1 = c.e.biases1
       /\ biases2 = c.e.biases2
       /\ learningRate = s.d.learningRate
       /\ taskType = s.d.currentTaskType
       /\ held = NoWeights
       /\ inp = 0
       /\ step = c.st
       /\ out = <<>>
       /\ lastOp = [op |-> "timer", inputs |-> data.inputs, target |-> data.targets,
                    prev |-> "timer", repeats |-> FALSE]
       /\ threw = FALSE
       /\ calls = 0
       /\ constructed = [learningRate |-> s.d.learningRate,
                         taskType |-> s.d.currentTaskType]
       /\ driver = Rendered(recorded(s.d, s.d.interval, TrainingStep(c.h, c.st)))
       /\ tfjs = NotLoaded

WindowNext ==
  \/ Timer
  \/ StepButton
  \/ StartPause

WindowSpec == WindowInit /\ [][WindowNext]_vars

\* the buffer data holds at most cap entries, which are the entries of the
\* most recent steps up to stepNumber, in order
Window(data, cap, stepNumber) ==
  /\ Len(data) <= cap
  /\ Len(data) = IF stepNumber < cap THEN stepNumber ELSE cap
  /\ \A k \in 1..Len(data) : data[k].step = stepNumber - Len(data) + k

\* a step appended one entry to old, and the oldest entry of a full buffer
\* was dropped
Slid(old, new, cap) ==
  /\ Len(new) >= 1
  /\ SubSeq(new, 1, Len(new) - 1) = IF Len(old) = cap THEN Tail(old) ELSE old

\* C27: the loss history holds at most 200 entries and the trajectory at most
\* 100, each the entries of the most recent steps in order; a training step
\* appends its entry to both and drops the oldest entry of a full buffer.
HistoryWindows ==
  [][/\ Window(driver.lossData, 200, driver.stepNumber)
     /\ Window(driver.lossWeightTrajectoryData, 100, driver.stepNumber)
     /\ Window(driver'.lossData, 200, driver'.stepNumber)
     /\ Window(driver'.lossWeightTrajectoryData, 100, driver'.stepNumber)
     /\ lastOp'.op \in Training =>
          /\ Slid(driver.lossData, driver'.lossData, 200)
          /\ Slid(driver.lossWeightTrajectoryData,
                  driver'.lossWeightTrajectoryData, 100)
          /\ driver'.lossData[Len(driver'.lossData)].loss = step'.backward.loss]_vars

\* both buffers are full and have dropped entries: the history begins at
\* step 3 or later, the trajectory a hundred steps after it
HistoryWindowsWitness ==
  /\ lastOp.op \in Training
  /\ driver.stepNumber >= 202
  /\ Len(driver.lossData) = 200
  /\ driver.lossData[1].step = driver.stepNumber - 199
  /\ Len(driver.lossWeightTrajectoryData) = 100
  /\ driver.lossWeightTrajectoryData[1].step = driver.stepNumber - 99

\* the step that fills the history: 199 entries before it, 200 after
HistoryFillsWitness ==
  /\ lastOp.op \in Training
  /\ calls = 1
  /\ driver.stepNumber = 200
  /\ Len(driver.lossData) = 200
  /\ driver.lossData[1].step = 1

----------------------------------------------------------------------------
(* The data index *)

\* the data index of the page d, and the one its interval's callback closed
\* over, name an example of the dataset
IndexNamesExample(d) ==
  /\ d.currentDataIndex \in 0..(Len(d.trainingData) - 1)
  /\ d.interval.on => d.interval.currentDataIndex = d.currentDataIndex

\* C28: the data index is within the dataset before and after every event,
\* a change of dataset sets it to 0, and every training step reads an example
\* that exists and raises nothing.
IndexInBounds ==
  [][/\ IndexNamesExample(driver)
     /\ IndexNamesExample(driver')
     /\ ~threw'
     /\ lastOp'.op = "changeDataset" => driver'.currentDataIndex = 0
     /\ lastOp'.op \in Training =>
          \E k \in 1..Len(driver.trainingData) :
            /\ k = driver.currentDataIndex + 1
            /\ lastOp'.inputs = driver.trainingData[k].inputs
            /\ lastOp'.target = driver.trainingData[k].targets
            /\ step' # NoStep]_vars

\* a training step ran right after the change to a dataset of fewer examples
IndexInBoundsWitness ==
  /\ lastOp.op \in Training
  /\ lastOp.prev = "changeDataset"
  /\ Len(driver.trainingData) = MaxSamples
  /\ MaxSamples < Len(generateXORData)
  /\ driver.stepNumber = 1
  /\ ~threw

\* the index stands at the last example of the larger dataset while the
\* dataset can still be changed
LastExampleWitness ==
  /\ driver.datasetName = "xor"
  /\ driver.currentDataIndex = Len(generateXORData) - 1
  /\ driver.currentDataIndex >= MaxSamples
  /\ calls < MaxEvents

----------------------------------------------------------------------------
(* The engine a training step uses *)

StepAfterHiddenSizeWitness ==
  /\ lastOp.op = "step"
  /\ lastOp.prev = "hiddenSize"
  /\ driver.datasetName # "xor"
  /\ driver.hiddenSize \in SliderHiddenSizes

====
